---- MODULE Spec2Model ----
(***************************************************************************)
(* Wenet: the transmit scheduler of tx/PacketTX.py (class PacketTX) and    *)
(* the receive loop / image reassembler of rx/rx_ssdv.py, with the packet  *)
(* helpers of rx/WenetPackets.py they call.                                *)
(*                                                                         *)
(* Bytes are the integers 0..255 and a byte string is a sequence of them.  *)
(* SpecTX is the transmitter with its producer threads and its scheduler   *)
(* thread; SpecRX is the receiver reading one packet per step.             *)
(***************************************************************************)
EXTENDS Integers, Sequences, FiniteSets, TLC

VARIABLES
    \* ---- PacketTX (tx/PacketTX.py) ----
    fec,               \* self.fec, a constructor argument
    ssdv_queue,        \* PacketTX.ssdv_queue: the frames queued, oldest first
    telemetry_queue,   \* PacketTX.telemetry_queue
    transmit_active,   \* self.transmit_active
    idle_message,      \* self.idle_message: the framed idle packet
    tx_pc,             \* where the scheduler thread (tx_thread) stands
    packet,            \* tx_thread's local 'packet' (<<>> when it holds none)
    seen,              \* what the current cycle's qsize() calls have observed
    prod,              \* the producer threads: position, frame in hand, puts left
    calls,             \* number of enqueue calls issued so far
    enq_log,           \* history: for each queue, the puts in completion order
    radio_tx,          \* history: the frames handed to radio.transmit_packet
    radio_shutdowns,   \* number of radio.shutdown() calls
    \* ---- rx/rx_ssdv.py ----
    args_hex,             \* args.hex
    args_partialupdate,   \* args.partialupdate: given or not, and its text
    current_image,        \* current_image
    current_callsign,     \* current_callsign
    current_packet_count, \* current_packet_count
    rxtemp,               \* the bytes of rxtemp.bin as written through temp_f
    temp_f,               \* the file object temp_f: "open" | "closed"
    stream,               \* history: the packets read from stdin so far
    events,               \* history: decoder runs, errors, moves, GUI updates
    rx_pc,                \* "parse_args" | "reading" | "exited" | "raised"
    \* ---- calls of the pure functions ----
    call,                 \* the last call made: function, arguments, result
    \* ---- tx/PacketTX.py, start_tx() called any number of times ----
    threads,              \* the tx_thread threads started so far: position, frame
    \* ---- the application threads that feed PacketTX ----
    camera,               \* tx/WenetPiCamera2.py: the flag and the auto_capture thread
    tx_text_message_count, \* PacketTX.text_message_count
    texters,              \* the threads inside transmit_text_message, and the ids packed
    script,               \* tx/tx_test_images.py: the main thread
    \* ---- rx/wenetserver.py ----
    server                \* its globals, and what it has emitted and uploaded

txvars == <<fec, ssdv_queue, telemetry_queue, transmit_active, idle_message,
            tx_pc, packet, seen, prod, calls, enq_log, radio_tx, radio_shutdowns>>
rxvars == <<args_hex, args_partialupdate, current_image, current_callsign,
            current_packet_count, rxtemp, temp_f, stream, events, rx_pc>>
appvars == <<camera, tx_text_message_count, texters, script, server>>
extvars == <<call, threads, appvars>>
vars == <<txvars, rxvars, extvars>>

(***************************************************************************)
(* Bounds of the model.                                                    *)
(***************************************************************************)
\* Enqueue calls (queue_telemetry_packet, queue_image_packet, tx_packet) followed.
MaxCalls == 2
\* Scheduler cycles that find both queues empty (idle transmissions) followed.
MaxIdle == 1
\* Capacity of the telemetry queue, Queue(256) in the source, scaled down so
\* that a full queue is reached.
TelemetryQueueMax == 2
\* Capacity of the image queue, Queue(4096) in the source, scaled down.
SsdvQueueMax == 1
\* Packets read from stdin by the receive loop.
MaxStream == 4
\* Values given to --partialupdate.
PartialUpdateTexts == {<<2>>}

(***************************************************************************)
(* Byte helpers.                                                           *)
(***************************************************************************)
Rep(b, n) == [i \in 1..n |-> b]

RECURSIVE XorBits(_, _, _)
XorBits(a, b, n) ==
    IF n = 0 THEN 0
    ELSE (((a % 2) + (b % 2)) % 2) + 2 * XorBits(a \div 2, b \div 2, n - 1)

XorNibble == [a \in 0..15 |-> [b \in 0..15 |-> XorBits(a, b, 4)]]
Xor8(a, b) == 16 * XorNibble[a \div 16][b \div 16] + XorNibble[a % 16][b % 16]
Xor16(a, b) == 256 * Xor8(a \div 256, b \div 256) + Xor8(a % 256, b % 256)

(***************************************************************************)
(* crcmod.predefined 'crc-ccitt-false': polynomial 0x1021, initial value   *)
(* 0xFFFF, no reflection, no final XOR.                                    *)
(***************************************************************************)
RECURSIVE CrcShift(_, _)
CrcShift(c, n) ==
    IF n = 0 THEN c
    ELSE CrcShift(IF c >= 32768 THEN Xor16((c * 2) % 65536, 4129)
                  ELSE (c * 2) % 65536, n - 1)

CrcTable == [b \in 0..255 |-> CrcShift(b * 256, 8)]

CrcByte(crc, b) == Xor16((crc * 256) % 65536, CrcTable[Xor8(crc \div 256, b)])

\* The register after bytes lo..hi of data, starting from crc (halved ranges
\* keep the evaluation shallow).
RECURSIVE CrcRange(_, _, _, _)
CrcRange(data, lo, hi, crc) ==
    IF lo > hi THEN crc
    ELSE IF lo = hi THEN CrcByte(crc, data[lo])
    ELSE LET mid == (lo + hi) \div 2
             left == CrcRange(data, lo, mid, crc)
         IN  IF left >= 0 THEN CrcRange(data, mid + 1, hi, left) ELSE 0

\* Mutant: the last byte is left out of the checksum.
crc16_SkipLast(data) == CrcRange(data, 1, Len(data) - 1, 65535)

crc16(data) == CrcRange(data, 1, Len(data), 65535)

(***************************************************************************)
(* Framing.                                                                *)
(***************************************************************************)
\* self.payload_length, a constructor argument (256 by default), scaled down:
\* frame_packet pads or cuts every payload to this length.
payload_length == 16
unique_word == <<171, 205, 239, 1>>
preamble == Rep(85, 16)
idle_sequence == Rep(86, 256)
callsign == <<78, 48, 67, 65, 76, 76>>          \* "N0CALL"

\* ldpc_encoder.ldpc_encode is not among the sources: 516 parity bits over the
\* block (payload and checksum), zero-padded to 65 bytes.  Only its being a
\* fixed function of the block with a 65-byte result is modelled.
ldpc_encode(block) ==
    [i \in 1..65 |->
        IF i = 65 THEN 0
        ELSE Xor8(block[((i - 1) % Len(block)) + 1], block[((i + 63) % Len(block)) + 1])]

\* Mutant: a framer that cuts long payloads but does not pad short ones.
frame_packet_of_NoPad(length, pkt, withfec) ==
    LET cut == IF Len(pkt) > length THEN SubSeq(pkt, 1, length) ELSE pkt
        c == crc16(cut)
        crc == <<c % 256, c \div 256>>
    IN  IF withfec
        THEN preamble \o unique_word \o cut \o crc \o ldpc_encode(cut \o crc)
        ELSE preamble \o unique_word \o cut \o crc

\* Mutant: a framer that stores the checksum most significant byte first.
frame_packet_of_CrcBigEndian(length, pkt, withfec) ==
    LET cut == IF Len(pkt) > length THEN SubSeq(pkt, 1, length) ELSE pkt
        padded == IF Len(cut) < length
                  THEN cut \o Rep(85, length - Len(cut)) ELSE cut
        c == crc16(padded)
        crc == <<c \div 256, c % 256>>
    IN  IF withfec
        THEN preamble \o unique_word \o padded \o crc \o ldpc_encode(padded \o crc)
        ELSE preamble \o unique_word \o padded \o crc

\* frame_packet(packet, fec) of an instance whose self.payload_length is
\* length.
frame_packet_of(length, pkt, withfec) ==
    LET cut == IF Len(pkt) > length THEN SubSeq(pkt, 1, length) ELSE pkt
        padded == IF Len(cut) < length
                  THEN cut \o Rep(85, length - Len(cut)) ELSE cut
        c == crc16(padded)
        crc == <<c % 256, c \div 256>>
    IN  IF withfec
        THEN preamble \o unique_word \o padded \o crc \o ldpc_encode(padded \o crc)
        ELSE preamble \o unique_word \o padded \o crc

frame_packet(pkt, withfec) == frame_packet_of(payload_length, pkt, withfec)

\* The payload portion of a frame: what follows preamble and unique word.
FramePayload(frame) == SubSeq(frame, 21, 20 + payload_length)

(***************************************************************************)
(* The producers and what they enqueue.  The k-th enqueue call of producer *)
(* t carries a payload that names k and t:                                 *)
(*   telemetry: a text message, tag 0x00, length 1, message id k, text t   *)
(*   image:     an SSDV chunk, tag 0x55, image id t, packet id k           *)
(***************************************************************************)
Producers == {1, 2}
Repeats == {1, 2}
Messages == {<<72, 73>>}                        \* "HI"

TelemetryPayload(t, k) == <<0, 1, 0, k, 64 + t>>
ImagePayload(t, k) == <<85, 102, 0, 0, 0, 41, t, 0, k, 4, 3>>

TxPayloads ==
    {TelemetryPayload(t, k) : t \in Producers, k \in 1..MaxCalls}
    \cup {ImagePayload(t, k) : t \in Producers, k \in 1..MaxCalls}
    \cup {idle_sequence}
    \cup {<<0>> \o <<68, 69, 32>> \o callsign \o <<58, 32, 9>> \o m : m \in Messages}

\* frame_packet on the payloads above, as a table computed once (comparing the
\* function makes TLC enumerate it).
Table(f) == IF f = [x \in {} |-> 0] THEN f ELSE f
Framed == Table([k \in BOOLEAN \X TxPayloads |-> frame_packet(k[2], k[1])])

\* A producer between two calls, after n calls.
Between(n) == [pc |-> "idle", frame |-> <<>>, left |-> 0, n |-> n]

(***************************************************************************)
(* queue.Queue as PacketTX uses it: put() blocks while the queue is full,  *)
(* qsize() and get_nowait() each take the queue's lock on their own.       *)
(***************************************************************************)
\* Mutant: a fullness test that lets one frame too many in.
Queue_full_OffByOne(q, maxsize) == Len(q) > maxsize
Queue_full(q, maxsize) == Len(q) >= maxsize
Queue_put(q, item) == Append(q, item)
\* Mutant: a get that takes the newest frame instead of the oldest.
Queue_get_nowait_Newest(q) == [item |-> q[Len(q)], rest |-> SubSeq(q, 1, Len(q) - 1)]
Queue_get_nowait(q) == [item |-> Head(q), rest |-> Tail(q)]
Queue_qsize(q) == Len(q)

\* The head a qsize() call has observed, as a sequence of at most one frame.
Observed(q) == IF Queue_qsize(q) > 0 THEN <<Head(q)>> ELSE <<>>
NothingSeen == [telemetry |-> <<>>, ssdv |-> <<>>]

TxInit ==
    /\ fec = FALSE
    /\ ssdv_queue = <<>>
    /\ telemetry_queue = <<>>
    /\ transmit_active = FALSE
    /\ idle_message = Framed[fec, idle_sequence]
    /\ tx_pc = "not_started"
    /\ packet = <<>>
    /\ seen = NothingSeen
    /\ prod = [t \in Producers |-> Between(0)]
    /\ calls = 0
    /\ enq_log = [telemetry |-> <<>>, ssdv |-> <<>>]
    /\ radio_tx = <<>>
    /\ radio_shutdowns = 0

(***************************************************************************)
(* PacketTX's operations, called by the producer threads.                  *)
(***************************************************************************)
\* start_tx(): every caller in the repository starts the scheduler once.
start_tx ==
    /\ tx_pc = "not_started"
    /\ transmit_active' = TRUE
    /\ tx_pc' = "loop"
    /\ UNCHANGED <<extvars, rxvars, fec, ssdv_queue, telemetry_queue, idle_message, packet, seen,
                   prod, calls, enq_log, radio_tx, radio_shutdowns>>

close ==
    /\ transmit_active
    /\ transmit_active' = FALSE
    /\ UNCHANGED <<extvars, rxvars, fec, ssdv_queue, telemetry_queue, idle_message, tx_pc, packet,
                   seen, prod, calls, enq_log, radio_tx, radio_shutdowns>>

IdleText(message) == <<0>> \o <<68, 69, 32>> \o callsign \o <<58, 32, 9>> \o message

set_idle_message(message) ==
    /\ idle_message' = Framed[fec, IdleText(message)]
    /\ UNCHANGED <<extvars, rxvars, fec, ssdv_queue, telemetry_queue, transmit_active, tx_pc, packet,
                   seen, prod, calls, enq_log, radio_tx, radio_shutdowns>>

\* An entry of the put history: who put which frame in which of its calls.
Entry(t, frame) == [by |-> t, n |-> prod[t].n, frame |-> frame]

\* queue_telemetry_packet(packet, repeats): the call frames the packet and
\* reaches its first put(), where it waits while the queue is full.
queue_telemetry_packet(t, repeats) ==
    /\ prod[t].pc = "idle"
    /\ calls < MaxCalls
    /\ calls' = calls + 1
    /\ prod' = [prod EXCEPT ![t] =
                  [pc |-> "put_telemetry",
                   frame |-> Framed[fec, TelemetryPayload(t, prod[t].n + 1)],
                   left |-> repeats, n |-> prod[t].n + 1]]
    /\ UNCHANGED <<extvars, rxvars, fec, ssdv_queue, telemetry_queue, transmit_active,
                   idle_message, tx_pc, packet, seen, enq_log, radio_tx,
                   radio_shutdowns>>

\* queue_image_packet(packet), and tx_packet(packet) with blocking = False.
queue_image_packet(t) ==
    /\ prod[t].pc = "idle"
    /\ calls < MaxCalls
    /\ calls' = calls + 1
    /\ prod' = [prod EXCEPT ![t] =
                  [pc |-> "put_ssdv",
                   frame |-> Framed[fec, ImagePayload(t, prod[t].n + 1)],
                   left |-> 1, n |-> prod[t].n + 1]]
    /\ UNCHANGED <<extvars, rxvars, fec, ssdv_queue, telemetry_queue, transmit_active,
                   idle_message, tx_pc, packet, seen, enq_log, radio_tx,
                   radio_shutdowns>>

\* self.telemetry_queue.put(...): returns once there is room; the loop of
\* queue_telemetry_packet then puts again or returns.
telemetry_put(t) ==
    /\ prod[t].pc = "put_telemetry"
    /\ ~Queue_full(telemetry_queue, TelemetryQueueMax)
    /\ telemetry_queue' = Queue_put(telemetry_queue, prod[t].frame)
    /\ enq_log' = [enq_log EXCEPT !.telemetry = Append(@, Entry(t, prod[t].frame))]
    /\ prod' = [prod EXCEPT ![t] =
                  IF prod[t].left > 1 THEN [@ EXCEPT !.left = @ - 1]
                  ELSE Between(prod[t].n)]
    /\ UNCHANGED <<extvars, rxvars, fec, ssdv_queue, transmit_active, idle_message, tx_pc,
                   packet, seen, calls, radio_tx, radio_shutdowns>>

\* self.ssdv_queue.put(...).
ssdv_put(t) ==
    /\ prod[t].pc = "put_ssdv"
    /\ ~Queue_full(ssdv_queue, SsdvQueueMax)
    /\ ssdv_queue' = Queue_put(ssdv_queue, prod[t].frame)
    /\ enq_log' = [enq_log EXCEPT !.ssdv = Append(@, Entry(t, prod[t].frame))]
    /\ prod' = [prod EXCEPT ![t] = Between(prod[t].n)]
    /\ UNCHANGED <<extvars, rxvars, fec, telemetry_queue, transmit_active, idle_message,
                   tx_pc, packet, seen, calls, radio_tx, radio_shutdowns>>

(***************************************************************************)
(* tx_thread, one step per access to the shared state.                     *)
(***************************************************************************)
Handed(src, frame) == [src |-> src, frame |-> frame]
FromSrc(log, src) == SelectSeq(log, LAMBDA h : h.src = src)
Idles(log) == Len(FromSrc(log, "idle"))

\* while self.transmit_active:
TxLoop ==
    /\ tx_pc = "loop"
    /\ (transmit_active /\ telemetry_queue = <<>> /\ ssdv_queue = <<>>)
           => Idles(radio_tx) < MaxIdle
    /\ tx_pc' = IF transmit_active THEN "check_telemetry" ELSE "closing"
    /\ seen' = NothingSeen
    /\ UNCHANGED <<extvars, rxvars, fec, ssdv_queue, telemetry_queue, transmit_active, idle_message,
                   packet, prod, calls, enq_log, radio_tx, radio_shutdowns>>

\* Mutant: the image queue is served before the telemetry queue.
TxCheckTelemetry_ImageFirst ==
    /\ tx_pc = "check_telemetry"
    /\ seen' = [seen EXCEPT !.telemetry = Observed(telemetry_queue)]
    /\ tx_pc' = IF Queue_qsize(ssdv_queue) > 0 THEN "get_ssdv"
                ELSE IF Queue_qsize(telemetry_queue) > 0 THEN "get_telemetry"
                ELSE "check_ssdv"
    /\ UNCHANGED <<extvars, rxvars, fec, ssdv_queue, telemetry_queue, transmit_active,
                   idle_message, packet, prod, calls, enq_log, radio_tx,
                   radio_shutdowns>>

\* if self.telemetry_queue.qsize()>0:
TxCheckTelemetry ==
    /\ tx_pc = "check_telemetry"
    /\ seen' = [seen EXCEPT !.telemetry = Observed(telemetry_queue)]
    /\ tx_pc' = IF Queue_qsize(telemetry_queue) > 0 THEN "get_telemetry"
                ELSE "check_ssdv"
    /\ UNCHANGED <<extvars, rxvars, fec, ssdv_queue, telemetry_queue, transmit_active, idle_message,
                   packet, prod, calls, enq_log, radio_tx, radio_shutdowns>>

\* packet = self.telemetry_queue.get_nowait()   (queue.Empty ends the thread)
\* self.radio.transmit_packet(packet)
TxSendTelemetry ==
    /\ tx_pc = "get_telemetry"
    /\ IF Queue_qsize(telemetry_queue) = 0
       THEN /\ tx_pc' = "raised"
            /\ UNCHANGED <<telemetry_queue, packet, radio_tx>>
       ELSE /\ packet' = <<Queue_get_nowait(telemetry_queue).item>>
            /\ telemetry_queue' = Queue_get_nowait(telemetry_queue).rest
            /\ radio_tx' = Append(radio_tx, Handed("telemetry", packet'[1]))
            /\ tx_pc' = "loop"
    /\ UNCHANGED <<extvars, rxvars, fec, ssdv_queue, transmit_active, idle_message, seen,
                   prod, calls, enq_log, radio_shutdowns>>

\* elif self.ssdv_queue.qsize()>0:
TxCheckSsdv ==
    /\ tx_pc = "check_ssdv"
    /\ seen' = [seen EXCEPT !.ssdv = Observed(ssdv_queue)]
    /\ tx_pc' = IF Queue_qsize(ssdv_queue) > 0 THEN "get_ssdv" ELSE "send_idle"
    /\ UNCHANGED <<extvars, rxvars, fec, ssdv_queue, telemetry_queue, transmit_active, idle_message,
                   packet, prod, calls, enq_log, radio_tx, radio_shutdowns>>

\* Mutant: the dequeued image frame is dropped instead of transmitted.
TxSendSsdv_Drop ==
    /\ tx_pc = "get_ssdv"
    /\ Queue_qsize(ssdv_queue) > 0
    /\ packet' = <<Queue_get_nowait(ssdv_queue).item>>
    /\ ssdv_queue' = Queue_get_nowait(ssdv_queue).rest
    /\ tx_pc' = "loop"
    /\ UNCHANGED <<extvars, rxvars, fec, telemetry_queue, transmit_active, idle_message,
                   seen, prod, calls, enq_log, radio_tx, radio_shutdowns>>

\* packet = self.ssdv_queue.get_nowait()
\* self.radio.transmit_packet(packet)
TxSendSsdv ==
    /\ tx_pc = "get_ssdv"
    /\ IF Queue_qsize(ssdv_queue) = 0
       THEN /\ tx_pc' = "raised"
            /\ UNCHANGED <<ssdv_queue, packet, radio_tx>>
       ELSE /\ packet' = <<Queue_get_nowait(ssdv_queue).item>>
            /\ ssdv_queue' = Queue_get_nowait(ssdv_queue).rest
            /\ radio_tx' = Append(radio_tx, Handed("ssdv", packet'[1]))
            /\ tx_pc' = "loop"
    /\ UNCHANGED <<extvars, rxvars, fec, telemetry_queue, transmit_active, idle_message,
                   seen, prod, calls, enq_log, radio_shutdowns>>

\* else: self.radio.transmit_packet(self.idle_message); time.sleep(0.1)
TxSendIdle ==
    /\ tx_pc = "send_idle"
    /\ radio_tx' = Append(radio_tx, Handed("idle", idle_message))
    /\ tx_pc' = "loop"
    /\ UNCHANGED <<extvars, rxvars, fec, ssdv_queue, telemetry_queue, transmit_active, idle_message,
                   packet, seen, prod, calls, enq_log, radio_shutdowns>>

\* Mutant: a thread that shuts the radio down twice.
TxShutdown_Twice ==
    /\ tx_pc = "closing"
    /\ radio_shutdowns' = radio_shutdowns + 2
    /\ tx_pc' = "done"
    /\ UNCHANGED <<extvars, rxvars, fec, ssdv_queue, telemetry_queue, transmit_active, idle_message,
                   packet, seen, prod, calls, enq_log, radio_tx>>

\* print("Closing Thread"); self.radio.shutdown()
TxShutdown ==
    /\ tx_pc = "closing"
    /\ radio_shutdowns' = radio_shutdowns + 1
    /\ tx_pc' = "done"
    /\ UNCHANGED <<extvars, rxvars, fec, ssdv_queue, telemetry_queue, transmit_active, idle_message,
                   packet, seen, prod, calls, enq_log, radio_tx>>


(***************************************************************************)
(* rx/WenetPackets.py: the packet helpers the receive loop calls.          *)
(***************************************************************************)
\* class WENET_PACKET_TYPES
TEXT_MESSAGE == 0
GPS_TELEMETRY == 1
ORIENTATION_TELEMETRY == 2
SEC_PAYLOAD_TELEMETRY == 3
IMAGE_TELEMETRY == 84
SSDV == 85
IDLE == 86

\* return packet[0]
decode_packet_type(data) == data[1]

\* _ssdv_callsign_alphabet = '-0123456789---ABCDEFGHIJKLMNOPQRSTUVWXYZ'
ssdv_callsign_alphabet ==
    <<"-", "0", "1", "2", "3", "4", "5", "6", "7", "8", "9", "-", "-", "-",
      "A", "B", "C", "D", "E", "F", "G", "H", "I", "J", "K", "L", "M",
      "N", "O", "P", "Q", "R", "S", "T", "U", "V", "W", "X", "Y", "Z">>

\* while code: callsign += alphabet[code % 40]; code = code // 40
RECURSIVE Base40(_)
Base40(code) ==
    IF code = 0 THEN <<>>
    ELSE <<ssdv_callsign_alphabet[(code % 40) + 1]>> \o Base40(code \div 40)

\* Mutant: the four bytes are unpacked least significant first ('<I').
ssdv_decode_callsign_LittleEndian(code) ==
    LET low == ((code[4] * 256 + code[3]) % 40) * 65536 + code[2] * 256 + code[1]
    IN  IF code = <<0, 0, 0, 0>> THEN <<>>
        ELSE <<ssdv_callsign_alphabet[(low % 40) + 1]>>
             \o Base40(((code[4] * 256 + code[3]) \div 40) * 65536 + low \div 40)

\* struct.unpack('>I', code), then the base-40 digits, least significant
\* first; a callsign is the sequence of its characters.  The unsigned 32-bit
\* code is divided by 40 once as its two 16-bit halves, the remainder of the
\* upper half carried into the lower one; the quotient is below 2^27.
ssdv_decode_callsign(code) ==
    LET low == ((code[1] * 256 + code[2]) % 40) * 65536 + code[3] * 256 + code[4]
    IN  IF code = <<0, 0, 0, 0>> THEN <<>>
        ELSE <<ssdv_callsign_alphabet[(low % 40) + 1]>>
             \o Base40(((code[1] * 256 + code[2]) \div 40) * 65536 + low \div 40)

\* ssdv_packet_info(packet): the fields the receive loop reads.
ssdv_packet_info(data) ==
    IF Len(data) # 256
    THEN [error |-> "ERROR: Invalid Packet Length", callsign |-> <<>>,
          image_id |-> -1, packet_id |-> -1]
    ELSE IF data[1] # 85
    THEN [error |-> "ERROR: Not a SSDV Packet.", callsign |-> <<>>,
          image_id |-> -1, packet_id |-> -1]
    ELSE [error |-> "None",
          callsign |-> ssdv_decode_callsign(SubSeq(data, 3, 6)),
          image_id |-> data[7],
          packet_id |-> data[8] * 256 + data[9]]

(***************************************************************************)
(* rx/rx_ssdv.py: the receive loop.  One step reads one packet from stdin  *)
(* and runs the loop body on it.                                           *)
(***************************************************************************)
\* Outcomes of os.system("ssdv -d ..."): the wait status of the shell, which
\* is 0 when ssdv exits with 0, 256 when it exits with 1, and 1 when the
\* shell is killed by signal 1.
WaitStatuses == {0, 1, 256}

\* The byte strings read from stdin.  An image chunk is an SSDV packet: sync
\* byte, type, callsign code, image id, packet id, width, height, flags (bit
\* 2 is the end-of-image flag), data.  The chunk read as packet number n of
\* the stream carries n as its packet id, so no two chunks are equal.
Bytes(f) == f \o <<>>
SsdvChunk(code, image_id, packet_id, eoi) ==
    Bytes([i \in 1..256 |->
        IF i = 1 THEN 85
        ELSE IF i = 2 THEN 102
        ELSE IF i \in 3..6 THEN code[i - 2]
        ELSE IF i = 7 THEN image_id
        ELSE IF i = 8 THEN packet_id \div 256
        ELSE IF i = 9 THEN packet_id % 256
        ELSE IF i = 10 THEN 4
        ELSE IF i = 11 THEN 3
        ELSE IF i = 12 THEN (IF eoi THEN 4 ELSE 0)
        ELSE 0])
Tagged(tag, length) == Bytes([i \in 1..length |-> IF i = 1 THEN tag ELSE 0])
ChunkHeaders ==
    {<<<<0, 0, 2, 102>>, 1, TRUE>>, <<<<0, 0, 0, 15>>, 1, FALSE>>,
     <<<<0, 0, 2, 102>>, 2, FALSE>>}
StdinChunks ==
    Table([k \in ChunkHeaders \X (0..MaxStream) |->
              SsdvChunk(k[1][1], k[1][2], k[2], k[1][3])])
TelemetryTags ==
    {TEXT_MESSAGE, GPS_TELEMETRY, ORIENTATION_TELEMETRY, SEC_PAYLOAD_TELEMETRY,
     IMAGE_TELEMETRY}
OtherInputs ==
    {Tagged(IDLE, 256), Tagged(GPS_TELEMETRY, 256), Tagged(255, 256),
     Tagged(SSDV, 100)}

\* One entry of the record of what the loop did to the outside world.
\*   decode    os.system("ssdv -d rxtemp.bin <out>.jpg"): data is the content
\*             of rxtemp.bin, code the returned status, final tells the
\*             image file of (callsign, image) from the preview rxtemp.jpg
\*   error     logging.error(...)
\*   mv        os.system("mv rxtemp.bin <out>.bin")
\*   gui       trigger_gui_update(...): meta is the packet_info passed
\*   telemetry broadcast_telemetry_packet + log_telemetry_packet
Event(type, final, callsign_, image, data, code, meta) ==
    [type |-> type, at |-> Len(stream) + 1, final |-> final,
     callsign |-> callsign_, image |-> image, data |-> data, code |-> code,
     meta |-> meta]
NoMeta == [callsign |-> <<>>, image_id |-> -1, packet_id |-> -1]
Meta(packet_info) ==
    [callsign |-> packet_info.callsign, image_id |-> packet_info.image_id,
     packet_id |-> packet_info.packet_id]

\* returncode = os.system(f"ssdv -d rxtemp.bin {_dessdv_filename}.jpg ...")
\* if returncode == 1: logging.error(...)
\* else: os.system("mv ..."); trigger_gui_update(..., packet_info)
DecodeCurrentImage(returncode, packet_info) ==
    <<Event("decode", TRUE, current_callsign, current_image, rxtemp,
            returncode, NoMeta)>>
    \o (IF returncode = 1
        THEN <<Event("error", TRUE, current_callsign, current_image, <<>>,
                     returncode, NoMeta)>>
        ELSE <<Event("mv", TRUE, current_callsign, current_image, rxtemp,
                     0, NoMeta),
               Event("gui", TRUE, current_callsign, current_image, <<>>,
                     0, Meta(packet_info))>>)

\* int(args.partialupdate)
RECURSIVE int(_)
int(text) ==
    IF text = <<>> THEN 0
    ELSE 10 * int(SubSeq(text, 1, Len(text) - 1)) + text[Len(text)]

\* returncode = os.system("ssdv -d rxtemp.bin rxtemp.jpg ...")
\* if returncode == 0: trigger_gui_update("rxtemp.jpg", ..., packet_info)
PartialUpdate(returncode, packet_info, file) ==
    <<Event("decode", FALSE, current_callsign, current_image, file,
            returncode, NoMeta)>>
    \o (IF returncode = 0
        THEN <<Event("gui", FALSE, current_callsign, current_image, <<>>,
                     0, Meta(packet_info))>>
        ELSE <<>>)

\* Mutant: a key comparison that looks at the image id only.
KeyChanged_ImageIdOnly(packet_info) == packet_info.image_id # current_image
\* (packet_info['image_id'] != current_image) or
\* (packet_info['callsign'] != current_callsign)
KeyChanged(packet_info) ==
    \/ packet_info.image_id # current_image
    \/ packet_info.callsign # current_callsign

\* Mutant: a write that loses the last byte of the chunk.
temp_f_write_Short(file, data) == file \o SubSeq(data, 1, Len(data) - 1)
\* temp_f.write(data)
temp_f_write(file, data) == file \o data

\* State variables, and temp_f = open("rxtemp.bin",'wb')
RxInit ==
    /\ args_hex = FALSE
    /\ args_partialupdate = [given |-> FALSE, text |-> <<>>]
    /\ current_image = -1
    /\ current_callsign = <<>>
    /\ current_packet_count = 0
    /\ rxtemp = <<>>
    /\ temp_f = "open"
    /\ stream = <<>>
    /\ events = <<>>
    /\ rx_pc = "parse_args"

\* args = parser.parse_args(): --partialupdate absent (default 0) or given
\* as text.
parse_args(given, text) ==
    /\ rx_pc = "parse_args"
    /\ args_partialupdate' = [given |-> given, text |-> IF given THEN text ELSE <<>>]
    /\ rx_pc' = "reading"
    /\ UNCHANGED <<extvars, txvars, temp_f, args_hex, current_image, current_callsign, current_packet_count,
                   rxtemp, stream, events>>

Reading == rx_pc = "reading" /\ Len(stream) < MaxStream

\* if data == b'': sys.exit(1)
RxEOF ==
    /\ rx_pc = "reading"
    /\ rx_pc' = "exited"
    /\ UNCHANGED <<extvars, txvars, temp_f, args_hex, args_partialupdate, current_image, current_callsign,
                   current_packet_count, rxtemp, stream, events>>

\* Mutant: idle packets are broadcast and logged like telemetry.
RxIdle_Broadcast(data) ==
    /\ Reading
    /\ decode_packet_type(data) = IDLE
    /\ stream' = Append(stream, data)
    /\ events' = Append(events, Event("telemetry", FALSE, <<>>, decode_packet_type(data),
                                      <<>>, 0, NoMeta))
    /\ UNCHANGED <<extvars, txvars, temp_f, args_hex, args_partialupdate, current_image, current_callsign,
                   current_packet_count, rxtemp, rx_pc>>

\* Mutant: idle packets are counted as chunks of the current image.
RxIdle_Counted(data) ==
    /\ Reading
    /\ decode_packet_type(data) = IDLE
    /\ stream' = Append(stream, data)
    /\ current_packet_count' = current_packet_count + 1
    /\ UNCHANGED <<extvars, txvars, temp_f, args_hex, args_partialupdate, current_image, current_callsign,
                   rxtemp, events, rx_pc>>

\* if packet_type == WENET_PACKET_TYPES.IDLE: continue
RxIdle(data) ==
    /\ Reading
    /\ decode_packet_type(data) = IDLE
    /\ stream' = Append(stream, data)
    /\ UNCHANGED <<extvars, txvars, temp_f, args_hex, args_partialupdate, current_image, current_callsign,
                   current_packet_count, rxtemp, events, rx_pc>>

\* Mutant: a telemetry packet ends the image being received.
RxTelemetry_Flush(data) ==
    /\ Reading
    /\ decode_packet_type(data) \in TelemetryTags
    /\ stream' = Append(stream, data)
    /\ events' = events \o DecodeCurrentImage(0, ssdv_packet_info(data))
    /\ UNCHANGED <<extvars, txvars, temp_f, args_hex, args_partialupdate, current_image, current_callsign,
                   current_packet_count, rxtemp, rx_pc>>

\* TEXT_MESSAGE, SEC_PAYLOAD_TELEMETRY, GPS_TELEMETRY, ORIENTATION_TELEMETRY,
\* IMAGE_TELEMETRY: broadcast_telemetry_packet, logging.info,
\* log_telemetry_packet
RxTelemetry(data) ==
    /\ Reading
    /\ decode_packet_type(data) \in TelemetryTags
    /\ stream' = Append(stream, data)
    /\ events' = Append(events, Event("telemetry", FALSE, <<>>, decode_packet_type(data),
                                      <<>>, 0, NoMeta))
    /\ UNCHANGED <<extvars, txvars, temp_f, args_hex, args_partialupdate, current_image, current_callsign,
                   current_packet_count, rxtemp, rx_pc>>

\* SSDV, packet_info['error'] != 'None': logging.error, continue
RxImageError(data) ==
    /\ Reading
    /\ decode_packet_type(data) = SSDV
    /\ ssdv_packet_info(data).error # "None"
    /\ stream' = Append(stream, data)
    /\ events' = Append(events, Event("error", FALSE, <<>>, -1, <<>>, 0, NoMeta))
    /\ UNCHANGED <<extvars, txvars, temp_f, args_hex, args_partialupdate, current_image, current_callsign,
                   current_packet_count, rxtemp, rx_pc>>

\* SSDV, key differs: decode the current image if current_packet_count > 0,
\* then set up for the new image and write in its first packet.
RxImageNewKey(data, returncode) ==
    /\ Reading
    /\ decode_packet_type(data) = SSDV
    /\ LET packet_info == ssdv_packet_info(data)
       IN  /\ packet_info.error = "None"
           /\ KeyChanged(packet_info)
           /\ events' = IF current_packet_count > 0
                        THEN events \o DecodeCurrentImage(returncode, packet_info)
                        ELSE events
           /\ current_image' = packet_info.image_id
           /\ current_callsign' = packet_info.callsign
    /\ current_packet_count' = 1
    /\ temp_f' = "open"
    /\ rxtemp' = temp_f_write(<<>>, data)
    /\ stream' = Append(stream, data)
    /\ UNCHANGED <<extvars, txvars, args_hex, args_partialupdate, rx_pc>>

\* Mutant: the period is tested on the count before the packet is counted.
RxImageSameKey_CountBefore(data, returncode) ==
    /\ Reading
    /\ decode_packet_type(data) = SSDV
    /\ LET packet_info == ssdv_packet_info(data)
       IN  /\ packet_info.error = "None"
           /\ ~KeyChanged(packet_info)
           /\ temp_f = "open"
           /\ rxtemp' = temp_f_write(rxtemp, data)
           /\ current_packet_count' = current_packet_count + 1
           /\ events' =
                IF ~args_partialupdate.given THEN events
                ELSE IF int(args_partialupdate.text) = 0
                THEN Append(events, Event("error", FALSE, current_callsign,
                                          current_image, <<>>, 0, NoMeta))
                ELSE IF current_packet_count % int(args_partialupdate.text) = 0
                THEN events \o PartialUpdate(returncode, packet_info, rxtemp')
                ELSE events
    /\ stream' = Append(stream, data)
    /\ UNCHANGED <<extvars, txvars, temp_f, args_hex, args_partialupdate, current_image, current_callsign, rx_pc>>

\* SSDV, same key: write the packet, count it, and push a partial update
\* every int(args.partialupdate) packets.  int("0") makes the modulo raise,
\* which the loop's except clause logs.
RxImageSameKey(data, returncode) ==
    /\ Reading
    /\ decode_packet_type(data) = SSDV
    /\ LET packet_info == ssdv_packet_info(data)
       IN  /\ packet_info.error = "None"
           /\ ~KeyChanged(packet_info)
           /\ temp_f = "open"
           /\ rxtemp' = temp_f_write(rxtemp, data)
           /\ current_packet_count' = current_packet_count + 1
           /\ events' =
                IF ~args_partialupdate.given THEN events
                ELSE IF int(args_partialupdate.text) = 0
                THEN Append(events, Event("error", FALSE, current_callsign,
                                          current_image, <<>>, 0, NoMeta))
                ELSE IF current_packet_count' % int(args_partialupdate.text) = 0
                THEN events \o PartialUpdate(returncode, packet_info, rxtemp')
                ELSE events
    /\ stream' = Append(stream, data)
    /\ UNCHANGED <<extvars, txvars, temp_f, args_hex, args_partialupdate, current_image, current_callsign, rx_pc>>

\* SSDV, key differs, current_packet_count > 0, and trigger_gui_update
\* raises (socket.socket / sendto fail with OSError): temp_f is closed, the
\* decoder has run, rxtemp.bin has been moved away, and control goes to the
\* except clause of the loop, past the assignments that set up the new image.
RxImageNewKeyGuiRaises(data, returncode) ==
    /\ Reading
    /\ decode_packet_type(data) = SSDV
    /\ current_packet_count > 0
    /\ returncode # 1
    /\ LET packet_info == ssdv_packet_info(data)
       IN  /\ packet_info.error = "None"
           /\ KeyChanged(packet_info)
           /\ events' = events
                \o <<Event("decode", TRUE, current_callsign, current_image, rxtemp,
                           returncode, NoMeta),
                     Event("mv", TRUE, current_callsign, current_image, rxtemp,
                           0, NoMeta),
                     Event("error", FALSE, current_callsign, current_image, <<>>,
                           0, NoMeta)>>
    /\ temp_f' = "closed"
    /\ rxtemp' = <<>>
    /\ stream' = Append(stream, data)
    /\ UNCHANGED <<extvars, txvars, args_hex, args_partialupdate, current_image,
                   current_callsign, current_packet_count, rx_pc>>

\* SSDV, same key, temp_f closed: temp_f.write(data) raises ValueError, which
\* the except clause logs; the packet is not counted.
RxImageSameKeyClosed(data) ==
    /\ Reading
    /\ decode_packet_type(data) = SSDV
    /\ temp_f = "closed"
    /\ LET packet_info == ssdv_packet_info(data)
       IN  /\ packet_info.error = "None"
           /\ ~KeyChanged(packet_info)
    /\ events' = Append(events, Event("error", FALSE, current_callsign,
                                      current_image, <<>>, 0, NoMeta))
    /\ stream' = Append(stream, data)
    /\ UNCHANGED <<extvars, txvars, temp_f, args_hex, args_partialupdate, current_image,
                   current_callsign, current_packet_count, rxtemp, rx_pc>>

\* else: logging.debug("Unknown Packet Format.")
RxUnknown(data) ==
    /\ Reading
    /\ decode_packet_type(data) \notin (TelemetryTags \cup {SSDV, IDLE})
    /\ stream' = Append(stream, data)
    /\ UNCHANGED <<extvars, txvars, temp_f, args_hex, args_partialupdate, current_image, current_callsign,
                   current_packet_count, rxtemp, events, rx_pc>>

(***************************************************************************)
(* rx_ssdv.py --hex: each packet arrives as a line of hexadecimal digits.  *)
(* A line is the sequence of its characters.                               *)
(***************************************************************************)
HexDigits == <<"0", "1", "2", "3", "4", "5", "6", "7", "8", "9",
               "a", "b", "c", "d", "e", "f">>
UpperHexDigits == <<"A", "B", "C", "D", "E", "F">>
Whitespace == {" ", "\t", "\n", "\r"}

\* str.rstrip()
RECURSIVE rstrip(_)
rstrip(line) ==
    IF line # <<>> /\ line[Len(line)] \in Whitespace
    THEN rstrip(SubSeq(line, 1, Len(line) - 1))
    ELSE line

\* The value of a hexadecimal digit, -1 for any other character.
HexValue(c) ==
    IF \E v \in 1..16 : HexDigits[v] = c
    THEN (CHOOSE v \in 1..16 : HexDigits[v] = c) - 1
    ELSE IF \E v \in 1..6 : UpperHexDigits[v] = c
    THEN (CHOOSE v \in 1..6 : UpperHexDigits[v] = c) + 9
    ELSE -1

\* codecs.decode(data, 'hex'): binascii.Error on an odd number of digits or
\* on a character that is no hexadecimal digit.
codecs_decode(text) ==
    IF Len(text) % 2 = 1 \/ \E i \in 1..Len(text) : HexValue(text[i]) = -1
    THEN [raised |-> TRUE, data |-> <<>>]
    ELSE [raised |-> FALSE,
          data |-> Bytes([i \in 1..(Len(text) \div 2) |->
                            16 * HexValue(text[2 * i - 1]) + HexValue(text[2 * i])])]

\* The line a sender writes for a packet: two digits per byte and a newline.
HexLine(data) ==
    Bytes([i \in 1..(2 * Len(data)) |->
             IF i % 2 = 1 THEN HexDigits[(data[(i + 1) \div 2] \div 16) + 1]
             ELSE HexDigits[(data[i \div 2] % 16) + 1]]) \o <<"\n">>

\* The lines read in --hex mode: packets of every branch of the loop, a
\* line with a character that is no digit, a line with an odd number of
\* digits, and a blank line.
GoodHexLines ==
    {HexLine(<<IDLE>>), HexLine(<<GPS_TELEMETRY>>), HexLine(<<255>>),
     HexLine(<<SSDV, 102>>)}
    \cup {HexLine(StdinChunks[h, 0]) : h \in ChunkHeaders}
BadHexLines == {<<"z", "z", "\n">>, <<"5", "\n">>}
BlankLines == {<<"\n">>}
HexLines == GoodHexLines \cup BadHexLines \cup BlankLines
HexDecoded == Table([line \in HexLines |-> codecs_decode(rstrip(line))])

\* args = parser.parse_args() with --hex.
parse_args_hex ==
    /\ rx_pc = "parse_args"
    /\ args_hex' = TRUE
    /\ rx_pc' = "reading"
    /\ UNCHANGED <<extvars, txvars, temp_f, args_partialupdate, current_image,
                   current_callsign, current_packet_count, rxtemp, stream, events>>

\* data = codecs.decode(data, 'hex') raises: the statement is outside the
\* try block, the exception ends the process.
RxHexRaises(line) ==
    /\ Reading
    /\ args_hex
    /\ HexDecoded[line].raised
    /\ rx_pc' = "raised"
    /\ events' = Append(events, Event("traceback", FALSE, <<>>, -1, line, 0, NoMeta))
    /\ UNCHANGED <<extvars, txvars, temp_f, args_hex, args_partialupdate,
                   current_image, current_callsign, current_packet_count,
                   rxtemp, stream>>

\* A line without digits decodes to b'': if data == b'': sys.exit(1)
RxHexEmpty(line) ==
    /\ Reading
    /\ args_hex
    /\ ~HexDecoded[line].raised
    /\ HexDecoded[line].data = <<>>
    /\ rx_pc' = "exited"
    /\ events' = Append(events, Event("exit", FALSE, <<>>, -1, line, 1, NoMeta))
    /\ UNCHANGED <<extvars, txvars, temp_f, args_hex, args_partialupdate,
                   current_image, current_callsign, current_packet_count,
                   rxtemp, stream>>

(***************************************************************************)
(* Properties of the transmitter (SpecTX).                                 *)
(***************************************************************************)
Frames(log) == [i \in 1..Len(log) |-> log[i].frame]
Sent(src) == Frames(FromSrc(radio_tx, src))
IsPrefix(a, b) == Len(a) <= Len(b) /\ SubSeq(b, 1, Len(a)) = a
LastHanded(log) == log[Len(log)]

\* C1: every scheduler cycle hands exactly one frame to the radio, and it is
\* the head of the telemetry queue if the cycle found that queue non-empty,
\* else the head of the image queue if the cycle found that one non-empty,
\* else the idle frame.  ("Found" is what the cycle's qsize() call saw; a
\* handover happens exactly in the steps that end a cycle.)
C1_OneFramePerCycleByPriority ==
    [][ /\ (radio_tx' # radio_tx) =>
              /\ radio_tx = SubSeq(radio_tx', 1, Len(radio_tx))
              /\ Len(radio_tx') = Len(radio_tx) + 1
              /\ tx_pc \in {"get_telemetry", "get_ssdv", "send_idle"}
              /\ tx_pc' = "loop"
              /\ IF seen.telemetry # <<>>
                 THEN /\ telemetry_queue # <<>>
                      /\ LastHanded(radio_tx') =
                            Handed("telemetry", Head(telemetry_queue))
                      /\ seen.telemetry = <<Head(telemetry_queue)>>
                 ELSE IF seen.ssdv # <<>>
                 THEN /\ ssdv_queue # <<>>
                      /\ LastHanded(radio_tx') = Handed("ssdv", Head(ssdv_queue))
                      /\ seen.ssdv = <<Head(ssdv_queue)>>
                 ELSE LastHanded(radio_tx') = Handed("idle", idle_message)
        /\ (tx_pc' = "loop" /\ tx_pc \notin {"loop", "not_started"}) =>
              Len(radio_tx') = Len(radio_tx) + 1
        /\ (tx_pc = "check_telemetry" /\ tx_pc' # tx_pc) =>
              (tx_pc' = "get_telemetry" <=> telemetry_queue # <<>>)
        /\ (tx_pc = "check_ssdv" /\ tx_pc' # tx_pc) =>
              (tx_pc' = "get_ssdv" <=> ssdv_queue # <<>>)
      ]_vars

\* C1 witness: a telemetry frame has just been handed over while an image
\* frame was waiting.
C1_Witness ==
    /\ tx_pc = "loop"
    /\ radio_tx # <<>>
    /\ LastHanded(radio_tx).src = "telemetry"
    /\ seen.telemetry # <<>>
    /\ ssdv_queue # <<>>
    /\ enq_log.ssdv # <<>> /\ Sent("ssdv") = <<>>

\* C5: the queues never exceed their capacity; a producer whose put() finds
\* the queue full stays in that put(), and until the scheduler dequeues a
\* frame the queue is left exactly as it is; every change of a queue is the
\* append of a waiting producer's frame or the removal of its head, which is
\* handed to the radio.
Blocked(t, pc, q, maxsize) == prod[t].pc = pc /\ Queue_full(q, maxsize)
QueueStep(q, qnext, pc, src) ==
    \/ qnext = q
    \/ /\ q # <<>> /\ qnext = Tail(q)
       /\ radio_tx' = Append(radio_tx, Handed(src, Head(q)))
    \/ \E t \in Producers : prod[t].pc = pc /\ qnext = Append(q, prod[t].frame)
C5_BoundedQueuesBackpressure ==
    [][ /\ Len(telemetry_queue') <= TelemetryQueueMax
        /\ Len(ssdv_queue') <= SsdvQueueMax
        /\ QueueStep(telemetry_queue, telemetry_queue', "put_telemetry", "telemetry")
        /\ QueueStep(ssdv_queue, ssdv_queue', "put_ssdv", "ssdv")
        /\ \A t \in Producers :
              /\ Blocked(t, "put_telemetry", telemetry_queue, TelemetryQueueMax) =>
                    /\ prod'[t] = prod[t]
                    /\ telemetry_queue' \in {telemetry_queue, Tail(telemetry_queue)}
              /\ Blocked(t, "put_ssdv", ssdv_queue, SsdvQueueMax) =>
                    /\ prod'[t] = prod[t]
                    /\ ssdv_queue' \in {ssdv_queue, Tail(ssdv_queue)}
      ]_vars

\* C5 witness: a producer waits in put() on a full telemetry queue.
C5_Witness ==
    \E t \in Producers :
        Blocked(t, "put_telemetry", telemetry_queue, TelemetryQueueMax)

\* C6 (as claimed): once the scheduler thread has ended, every frame whose
\* enqueue completed has been handed to the radio.
C6_NothingDroppedAtClose ==
    tx_pc = "done" =>
        /\ Sent("telemetry") = Frames(enq_log.telemetry)
        /\ Sent("ssdv") = Frames(enq_log.ssdv)

\* C6 (amended): for each queue, the frames whose enqueue completed are, in
\* order, the frames handed to the radio from that queue followed by the
\* frames still queued: none lost, none handed twice while the scheduler
\* runs; once the scheduler has seen the stop signal nothing more is handed.
C6_HandedOnceOrStillQueued ==
    [][ /\ Frames(enq_log.telemetry)' = Sent("telemetry")' \o telemetry_queue'
        /\ Frames(enq_log.ssdv)' = Sent("ssdv")' \o ssdv_queue'
        /\ tx_pc \in {"closing", "done"} => radio_tx' = radio_tx
      ]_vars

\* C6 witness: the scheduler has ended with handed frames behind it and a
\* completed enqueue left in a queue.
C6_Witness ==
    /\ tx_pc = "done"
    /\ Sent("ssdv") # <<>>
    /\ ssdv_queue # <<>>

\* C7: the frames handed to the radio from a queue are, in order, the first
\* of the frames put into that queue in completion order, and two frames of
\* one producer are handed in that producer's call order (producer and call
\* number are read from the transmitted bytes).
ProducerOf(frame) ==
    LET p == FramePayload(frame) IN IF p[1] = 85 THEN p[7] ELSE p[5] - 64
CallOf(frame) ==
    LET p == FramePayload(frame) IN IF p[1] = 85 THEN p[9] ELSE p[4]
InCallOrder(frames) ==
    \A i, j \in 1..Len(frames) :
        (i < j /\ ProducerOf(frames[i]) = ProducerOf(frames[j]))
            => CallOf(frames[i]) <= CallOf(frames[j])
C7_FifoPerQueue ==
    /\ IsPrefix(Sent("telemetry"), Frames(enq_log.telemetry))
    /\ IsPrefix(Sent("ssdv"), Frames(enq_log.ssdv))
    /\ InCallOrder(Sent("telemetry"))
    /\ InCallOrder(Sent("ssdv"))

\* C7 witness: frames of two producers have been transmitted from the
\* telemetry queue.
C7_Witness ==
    /\ Len(Sent("telemetry")) >= 2
    /\ \E i, j \in 1..Len(Sent("telemetry")) :
          ProducerOf(Sent("telemetry")[i]) # ProducerOf(Sent("telemetry")[j])

\* C8 (as claimed): whatever was called before, a frame handed over by a
\* cycle that found both queues empty is frame_packet of the idle sequence,
\* whose payload starts with the Idle tag 0x56.
C8_IdleFrameIsIdleFiller ==
    \A i \in 1..Len(radio_tx) :
        radio_tx[i].src = "idle" =>
            /\ radio_tx[i].frame = frame_packet(idle_sequence, fec)
            /\ FramePayload(radio_tx[i].frame)[1] = 86


(***************************************************************************)
(* Properties of the receive loop (SpecRX).                                *)
(***************************************************************************)
\* A packet the SSDV branch accepts, and the key it carries.
Valid(data) == decode_packet_type(data) = SSDV /\ ssdv_packet_info(data).error = "None"
KeyOf(data) == <<ssdv_packet_info(data).callsign, ssdv_packet_info(data).image_id>>
CurrentKey == <<current_callsign, current_image>>
NoKey == <<<<>>, -1>>
Last(s) == s[Len(s)]
\* The positions in the stream of the accepted chunks, and the k-th of them.
ChunkIdx == SelectSeq([i \in 1..Len(stream) |-> i], LAMBDA i : Valid(stream[i]))
Chunk(k) == stream[ChunkIdx[k]]
\* The chunks (by rank) that start a run of equal keys.
RunStarts ==
    SelectSeq([k \in 1..Len(ChunkIdx) |-> k],
              LAMBDA k : k = 1 \/ KeyOf(Chunk(k)) # KeyOf(Chunk(k - 1)))
RECURSIVE Concat(_, _)
Concat(lo, hi) == IF lo > hi THEN <<>> ELSE Chunk(lo) \o Concat(lo + 1, hi)
\* The decoder runs that produce an image file, and with them the moves of
\* rxtemp.bin to its final name: the flushes.
Flushes(log) == SelectSeq(log, LAMBDA e : e.type = "decode" /\ e.final)
FlushEvents(log) == SelectSeq(log, LAMBDA e : e.final /\ e.type \in {"decode", "mv"})

AccumulatorShape ==
    /\ Len(rxtemp) = 256 * current_packet_count
    /\ \A k \in 1..current_packet_count :
          LET slice == SubSeq(rxtemp, 256 * (k - 1) + 1, 256 * k)
          IN  Valid(slice) /\ KeyOf(slice) = CurrentKey
    /\ current_packet_count = 0 => CurrentKey = NoKey
C4_FlushOnlyOnKeyChange ==
    [][ FlushEvents(events') # FlushEvents(events) =>
            /\ stream' = Append(stream, Last(stream'))
            /\ Valid(Last(stream'))
            /\ KeyOf(Last(stream')) # CurrentKey
            /\ current_packet_count > 0
            /\ Len(Flushes(events')) = Len(Flushes(events)) + 1
            /\ Last(Flushes(events')).data = rxtemp
      ]_vars

\* C4 witness: the stream ended after a chunk with the end-of-image flag,
\* a telemetry packet and a further chunk of the same key that pushed a
\* partial update; nothing was flushed.
C4_Witness ==
    /\ rx_pc = "exited"
    /\ Len(stream) = 3
    /\ Valid(stream[1]) /\ stream[1][12] = 4
    /\ decode_packet_type(stream[2]) = GPS_TELEMETRY
    /\ current_packet_count = 2
    /\ \E i \in 1..Len(events) : events[i].type = "decode" /\ ~events[i].final
    /\ FlushEvents(events) = <<>>

\* C9: a step that processes a packet other than an accepted chunk leaves
\* the key, the count and the buffer unchanged and flushes nothing; every
\* flush is made at an accepted chunk.
C9_NonImagePacketsLeaveReassembler ==
    [][ /\ (stream' # stream /\ ~Valid(Last(stream'))) =>
              /\ UNCHANGED <<current_image, current_callsign,
                             current_packet_count, rxtemp>>
              /\ FlushEvents(events') = FlushEvents(events)
        /\ \A i \in 1..Len(Flushes(events')) :
              Valid(stream'[Flushes(events')[i].at])
      ]_vars

\* C9 witness: a chunk, then an idle packet and an unknown packet, then a
\* chunk of another key: the first chunk alone was flushed, at the fourth
\* packet.
C9_Witness ==
    /\ Len(stream) = 4
    /\ decode_packet_type(stream[2]) = IDLE
    /\ decode_packet_type(stream[3]) = 255
    /\ Len(Flushes(events)) = 1
    /\ Flushes(events)[1].at = 4
    /\ Flushes(events)[1].data = stream[1]
    /\ rxtemp = stream[4]

\* C10 (as claimed): a decoder run of a flush that returns a failure status
\* is followed by an error report, and trigger_gui_update is not called
\* for that flush.
C10_DecoderFailureReported ==
    \A i \in 1..Len(events) :
        (events[i].type = "decode" /\ events[i].final /\ events[i].code # 0) =>
            /\ i < Len(events)
            /\ events[i + 1].type = "error"
            /\ \A j \in 1..Len(events) :
                  ~(events[j].type = "gui" /\ events[j].final
                    /\ events[j].at = events[i].at)

\* C11 (as claimed): a step that processes an accepted chunk whose key
\* differs from the current key ends with that chunk's key as the current
\* key, count 1, and exactly that chunk in an open buffer file.
C11_FlushThenResetAtomic ==
    [][ (stream' # stream /\ Valid(Last(stream'))
         /\ KeyOf(Last(stream')) # CurrentKey) =>
            /\ CurrentKey' = KeyOf(Last(stream'))
            /\ current_packet_count' = 1
            /\ rxtemp' = Last(stream')
            /\ temp_f' = "open"
      ]_vars

\* C12 (as claimed): the receive loop is never ended by an exception, and
\* it exits only at the end of the input, never on a line that was read.
C12_OnlyEofEndsSession ==
    /\ rx_pc # "raised"
    /\ rx_pc = "exited" =>
          \A i \in 1..Len(events) :
              ~(events[i].type = "exit" /\ events[i].data # <<>>)

TxNext ==
    \/ start_tx
    \/ close
    \/ \E m \in Messages : set_idle_message(m)
    \/ \E t \in Producers, r \in Repeats : queue_telemetry_packet(t, r)
    \/ \E t \in Producers : queue_image_packet(t)
    \/ \E t \in Producers : telemetry_put(t)
    \/ \E t \in Producers : ssdv_put(t)
    \/ TxLoop
    \/ TxCheckTelemetry
    \/ TxSendTelemetry
    \/ TxCheckSsdv
    \/ TxSendSsdv
    \/ TxSendIdle
    \/ TxShutdown

\* No pure function has been called yet.
NoCall == [fn |-> "none"]
\* The application threads before they are started: the capture thread of
\* WenetPiCamera2 (auto_capture_running = False, line 453), PacketTX's text
\* counter (line 75) and the main thread of tx_test_images.py.
AppInit ==
    /\ camera = [auto_capture_running |-> FALSE, pc |-> "not_started", start_id |-> 0,
                 image_id |-> 0, file |-> <<>>, images |-> 0, slept |-> FALSE,
                 pushed |-> <<>>, stopped |-> "no"]
    /\ tx_text_message_count = 0
    /\ texters = [pc |-> [t \in Producers |-> "idle"], count |-> [t \in Producers |-> 0],
                  frame |-> [t \in Producers |-> <<>>], packed |-> <<>>]
    /\ script = [pc |-> "not_started", img |-> 0, chunks |-> 0, x |-> 0]
    /\ server = [pc |-> "not_started", sondehub |-> FALSE, udp_emit_port |-> 0,
                 current_callsign |-> <<>>, current_modem_stats |-> <<>>,
                 emitted |-> <<>>, uploads |-> <<>>, summaries |-> <<>>,
                 last |-> <<>>]

ExtInit == call = NoCall /\ threads = <<>> /\ AppInit

\* Both programs in their initial state.
Init == TxInit /\ RxInit /\ ExtInit

SpecTX == Init /\ [][TxNext]_vars

RxNext ==
    \/ \E text \in PartialUpdateTexts : parse_args(TRUE, text)
    \/ parse_args(FALSE, <<>>)
    \/ RxEOF
    \/ \E data \in OtherInputs : RxIdle(data)
    \/ \E data \in OtherInputs : RxTelemetry(data)
    \/ \E data \in OtherInputs : RxImageError(data)
    \/ \E h \in ChunkHeaders, returncode \in WaitStatuses :
          RxImageNewKey(StdinChunks[h, Len(stream)], returncode)
    \/ \E h \in ChunkHeaders, returncode \in WaitStatuses :
          RxImageSameKey(StdinChunks[h, Len(stream)], returncode)
    \/ \E data \in OtherInputs : RxUnknown(data)

SpecRX == Init /\ [][RxNext]_vars

\* The receive loop with a GUI socket that can fail.
RxFaultNext ==
    \/ RxNext
    \/ \E h \in ChunkHeaders, returncode \in WaitStatuses :
          RxImageNewKeyGuiRaises(StdinChunks[h, Len(stream)], returncode)
    \/ \E h \in ChunkHeaders : RxImageSameKeyClosed(StdinChunks[h, Len(stream)])

SpecRXFault == Init /\ [][RxFaultNext]_vars

\* The receive loop started with --hex.
RxHexNext ==
    \/ parse_args_hex
    \/ RxEOF
    \/ \E line \in HexLines : RxHexRaises(line)
    \/ \E line \in HexLines : RxHexEmpty(line)
    \/ \E line \in GoodHexLines : RxIdle(HexDecoded[line].data)
    \/ \E line \in GoodHexLines : RxTelemetry(HexDecoded[line].data)
    \/ \E line \in GoodHexLines : RxImageError(HexDecoded[line].data)
    \/ \E line \in GoodHexLines, returncode \in WaitStatuses :
          RxImageNewKey(HexDecoded[line].data, returncode)
    \/ \E line \in GoodHexLines, returncode \in WaitStatuses :
          RxImageSameKey(HexDecoded[line].data, returncode)
    \/ \E line \in GoodHexLines : RxUnknown(HexDecoded[line].data)

SpecRXHex == Init /\ [][RxHexNext]_vars

(***************************************************************************)
(* Framing as a function of its input: PacketTX.frame_packet of an         *)
(* instance built with the default payload length, called directly and     *)
(* from each place that frames a packet with the instance's FEC setting.   *)
(***************************************************************************)
default_payload_length == 256

\* Longest input handed to frame_packet.
MaxInput == 258

Pattern(n) == Bytes([i \in 1..n |-> (i * 37 + n) % 256])

\* The ASCII digits "123456789", the usual check input of a CRC.
CheckInput == <<49, 50, 51, 52, 53, 54, 55, 56, 57>>

FrameInputs == {Pattern(n) : n \in 0..MaxInput} \cup {CheckInput}

\* The places that call frame_packet(x, self.fec).
FramingSites ==
    {"__init__", "set_idle_message", "tx_packet",
     "queue_image_packet", "queue_telemetry_packet"}

SiteInputs(site) ==
    CASE site = "__init__" -> {idle_sequence}
      [] site = "set_idle_message" -> {IdleText(m) : m \in Messages}
      [] OTHER -> {Pattern(0), Pattern(default_payload_length), Pattern(MaxInput), CheckInput}

\* A direct call frame_packet(packet, fec).
frame_packet_call(pkt, withfec) ==
    /\ call = NoCall
    /\ call' = [fn |-> "frame_packet", site |-> "direct", self_fec |-> withfec,
                packet |-> pkt, fec |-> withfec,
                result |-> Bytes(frame_packet_of(default_payload_length, pkt, withfec))]
    /\ UNCHANGED <<txvars, rxvars, threads, appvars>>

\* frame_packet(x, self.fec) as called in __init__, set_idle_message,
\* tx_packet, queue_image_packet and queue_telemetry_packet of an instance
\* whose fec attribute is self_fec.
frame_packet_at(site, pkt, self_fec) ==
    /\ call = NoCall
    /\ call' = [fn |-> "frame_packet", site |-> site, self_fec |-> self_fec,
                packet |-> pkt, fec |-> self_fec,
                result |-> Bytes(frame_packet_of(default_payload_length, pkt, self_fec))]
    /\ UNCHANGED <<txvars, rxvars, threads, appvars>>

FrameNext ==
    \/ \E pkt \in FrameInputs, withfec \in BOOLEAN : frame_packet_call(pkt, withfec)
    \/ \E site \in FramingSites, self_fec \in BOOLEAN :
          \E pkt \in SiteInputs(site) : frame_packet_at(site, pkt, self_fec)

SpecFrame == Init /\ [][FrameNext]_vars

Min(a, b) == IF a < b THEN a ELSE b

\* C13: whatever the length of its input, frame_packet returns a frame whose
\* payload portion is exactly 256 bytes, the first min(len, 256) of them the
\* input and the rest 0x55, and the frame is 278 bytes long without FEC and
\* 343 bytes long with it.
C13_PayloadAlways256 ==
    call.fn = "frame_packet" =>
        LET n == Min(Len(call.packet), 256)
            P == SubSeq(call.result, 21, 276)
        IN  /\ Len(call.result) = IF call.fec THEN 343 ELSE 278
            /\ Len(P) = 256
            /\ SubSeq(P, 1, n) = SubSeq(call.packet, 1, n)
            /\ \A i \in (n + 1)..256 : P[i] = 85

C13_Witness ==
    /\ call.fn = "frame_packet"
    /\ Len(call.packet) > 256
    /\ call.fec
    /\ call.site = "direct"


\* C14: a frame is sixteen 0x55 bytes, AB CD EF 01, the padded payload P, the
\* CRC-16/CCITT-FALSE of P least significant byte first, and the parity of
\* P and checksum exactly when FEC is asked for; a frame made in __init__,
\* set_idle_message, tx_packet, queue_image_packet or queue_telemetry_packet
\* carries parity exactly when the instance's fec attribute is set.
\* (0x29B1 = 10673 is the CRC-16/CCITT-FALSE of "123456789"; a block followed
\* by its checksum, most significant byte first, leaves the register at 0.)
C14_FrameLayout ==
    /\ crc16(CheckInput) = 10673
    /\ call.fn = "frame_packet" =>
          LET r == call.result
              P == SubSeq(r, 21, 276)
          IN  /\ SubSeq(r, 1, 16) = <<85, 85, 85, 85, 85, 85, 85, 85,
                                      85, 85, 85, 85, 85, 85, 85, 85>>
              /\ SubSeq(r, 17, 20) = <<171, 205, 239, 1>>
              /\ r[277] + 256 * r[278] = crc16(P)
              /\ crc16(P \o <<r[278], r[277]>>) = 0
              /\ call.fec => /\ Len(r) = 343
                             /\ SubSeq(r, 279, 343) = ldpc_encode(SubSeq(r, 21, 278))
              /\ ~call.fec => Len(r) = 278
              /\ call.site # "direct" => (Len(r) = 343 <=> call.self_fec)

C14_Witness ==
    /\ call.fn = "frame_packet"
    /\ call.site = "queue_telemetry_packet"
    /\ call.self_fec
    /\ call.result[277] + 256 * call.result[278] # 256 * call.result[277] + call.result[278]


(***************************************************************************)
(* rx/WenetPackets.py: the typed decoders and string renderers, as         *)
(* functions of the packet bytes.  Offsets are those of struct.unpack,     *)
(* counted from 0; every multi-byte field is big-endian.                   *)
(***************************************************************************)
U8(p, o) == p[o + 1]
U16(p, o) == p[o + 1] * 256 + p[o + 2]
\* An unsigned 32-bit field, kept as its high and low 16-bit halves.
U32(p, o) == <<p[o + 1] * 256 + p[o + 2], p[o + 3] * 256 + p[o + 4]>>
S8(p, o) == IF p[o + 1] >= 128 THEN p[o + 1] - 256 ELSE p[o + 1]

\* struct 'f': an IEEE-754 single, kept as its sign, exponent and fraction.
\* Exponent 255 is an infinity (fraction 0) or a NaN.
F32(p, o) ==
    [sign |-> p[o + 1] \div 128,
     exponent |-> (p[o + 1] % 128) * 2 + p[o + 2] \div 128,
     fraction |-> ((p[o + 2] % 128) * 256 + p[o + 3]) * 256 + p[o + 4]]
IsFinite(f) == f.exponent # 255

\* Python values built from a float: round(x, n), int(x), a float literal
\* and an int stored where a float is stored otherwise.
round(x, n) == [round |-> n, of |-> x]
int_of(x) == [int |-> x]
PyFloat(text) == [float |-> text]
PyInt(n) == [num |-> n]

\* An outcome of a call: a returned value or a raised exception.
Return(v) == [raised |-> FALSE, value |-> v]
Raise(e) == [raised |-> TRUE, value |-> [exception |-> e]]

\* "...".decode('ascii') succeeds on bytes below 128 only.
IsAscii(b) == \A i \in 1..Len(b) : b[i] < 128

\* b[lo:hi] of Python, lo and hi counted from 0.
Slice(b, lo, hi) == SubSeq(b, lo + 1, IF hi < Len(b) THEN hi ELSE Len(b))

decode_text_message(pkt) ==
    IF Len(pkt) < 4 \/ ~IsAscii(Slice(pkt, 4, 4 + U8(pkt, 1)))
    THEN [error |-> "Could not decode message pkt."]
    ELSE [len |-> U8(pkt, 1),
          id |-> U16(pkt, 2),
          text |-> Slice(pkt, 4, 4 + U8(pkt, 1)),
          error |-> "None"]

text_message_string(pkt) ==
    LET message == decode_text_message(pkt)
    IN  IF message.error # "None"
        THEN Return([fmt |-> "Text: ERROR Could not decode.", args |-> <<>>])
        ELSE Return([fmt |-> "Text Message #%d: \t%s",
                     args |-> <<message.id, message.text>>])

\* Mutant: the leap seconds are added.
gps_weeksecondstoutc_AddLeap(gpsweek, milliseconds, leapseconds) ==
    LET part == milliseconds[1] * 536 + milliseconds[2]
        seconds == milliseconds[1] * 65 + part \div 1000 + leapseconds
        \* 1980-01-06 is day 6 of the year after 1979 whole years.
        epoch == 365 * 1979 + 1979 \div 4 - 1979 \div 100 + 1979 \div 400 + 6
        n == epoch + gpsweek * 7 + seconds \div 86400 - 1
        n400 == n \div 146097
        r400 == n % 146097
        n100 == r400 \div 36524
        r100 == r400 % 36524
        n4 == r100 \div 1461
        r4 == r100 % 1461
        n1 == r4 \div 365
        r1 == r4 % 365
        year == n400 * 400 + 1 + n100 * 100 + n4 * 4 + n1
        leapyear == n1 = 3 /\ (n4 # 24 \/ n100 = 3)
        before(mo) ==
            <<0, 31, 59, 90, 120, 151, 181, 212, 243, 273, 304, 334, 365>>[mo]
            + (IF mo > 2 /\ leapyear THEN 1 ELSE 0)
        month == CHOOSE mo \in 1..12 : before(mo) <= r1 /\ r1 < before(mo + 1)
        ymd == IF n1 = 4 \/ n100 = 4 THEN <<year - 1, 12, 31>>
               ELSE <<year, month, r1 - before(month) + 1>>
    IN  [year |-> ymd[1], month |-> ymd[2], day |-> ymd[3],
         hour |-> (seconds % 86400) \div 3600,
         minute |-> ((seconds % 86400) % 3600) \div 60,
         second |-> (seconds % 86400) % 60,
         microsecond |-> (part % 1000) * 1000]

\* gps_weeksecondstoutc: the date and time that isoformat() writes.  The
\* second argument is the iTOW field in milliseconds as its two 16-bit halves
\* (the decoders divide it by 1000.0 and timedelta rounds the float to the
\* microsecond, which gives back the millisecond exactly).  timedelta
\* normalises to days, seconds of the day and microseconds; the date is
\* found from the day number as datetime finds it, by cycles of 400, 100, 4
\* and 1 years.
gps_weeksecondstoutc(gpsweek, milliseconds, leapseconds) ==
    LET part == milliseconds[1] * 536 + milliseconds[2]
        seconds == milliseconds[1] * 65 + part \div 1000 - leapseconds
        \* 1980-01-06 is day 6 of the year after 1979 whole years.
        epoch == 365 * 1979 + 1979 \div 4 - 1979 \div 100 + 1979 \div 400 + 6
        n == epoch + gpsweek * 7 + seconds \div 86400 - 1
        n400 == n \div 146097
        r400 == n % 146097
        n100 == r400 \div 36524
        r100 == r400 % 36524
        n4 == r100 \div 1461
        r4 == r100 % 1461
        n1 == r4 \div 365
        r1 == r4 % 365
        year == n400 * 400 + 1 + n100 * 100 + n4 * 4 + n1
        leapyear == n1 = 3 /\ (n4 # 24 \/ n100 = 3)
        before(mo) ==
            <<0, 31, 59, 90, 120, 151, 181, 212, 243, 273, 304, 334, 365>>[mo]
            + (IF mo > 2 /\ leapyear THEN 1 ELSE 0)
        month == CHOOSE mo \in 1..12 : before(mo) <= r1 /\ r1 < before(mo + 1)
        ymd == IF n1 = 4 \/ n100 = 4 THEN <<year - 1, 12, 31>>
               ELSE <<year, month, r1 - before(month) + 1>>
    IN  [year |-> ymd[1], month |-> ymd[2], day |-> ymd[3],
         hour |-> (seconds % 86400) \div 3600,
         minute |-> ((seconds % 86400) % 3600) \div 60,
         second |-> (seconds % 86400) % 60,
         microsecond |-> (part % 1000) * 1000]

gpsFix_str(gpsFix) ==
    CASE gpsFix = 0 -> [fmt |-> "No Fix", args |-> <<>>]
      [] gpsFix = 2 -> [fmt |-> "2D Fix", args |-> <<>>]
      [] gpsFix = 3 -> [fmt |-> "3D Fix", args |-> <<>>]
      [] gpsFix = 5 -> [fmt |-> "Time Only", args |-> <<>>]
      [] OTHER -> [fmt |-> "Unknown (%d)", args |-> <<gpsFix>>]

dynamic_model_str(dynamic_model) ==
    CASE dynamic_model = 0 -> "Portable"
      [] dynamic_model = 1 -> "Not Used"
      [] dynamic_model = 2 -> "Stationary"
      [] dynamic_model = 3 -> "Pedestrian"
      [] dynamic_model = 4 -> "Automotive"
      [] dynamic_model = 5 -> "Sea"
      [] dynamic_model = 6 -> "Airborne 1G"
      [] dynamic_model = 7 -> "Airborne 2G"
      [] dynamic_model = 8 -> "Airborne 4G"
      [] OTHER -> "Unknown"

GPS_TELEMETRY_LENGTH == 73
ORIENTATION_TELEMETRY_LENGTH == 43
IMAGE_TELEMETRY_LENGTH == 80

\* Mutant: a GPS decoder that tests the clock field of the unclipped tail.
gps_telemetry_decoder_Tail(input) ==
    IF Len(input) < GPS_TELEMETRY_LENGTH
    THEN [error |-> "GPS Telemetry Packet has invalid length."]
    ELSE LET pkt == SubSeq(input, 1, GPS_TELEMETRY_LENGTH)
             legacy == U16(input, Len(input) - 30) = 21845
         IN  IF ~IsFinite(F32(pkt, 69))
             THEN [error |-> "Could not decode GPS telemetry pkt."]
             ELSE [week |-> U16(pkt, 1), cpu_speed |-> IF legacy THEN 0 ELSE U16(pkt, 43),
                   error |-> "None"]

\* Mutant: a GPS decoder whose override leaves the load averages alone.
gps_telemetry_decoder_KeepLoad(input) ==
    IF Len(input) < GPS_TELEMETRY_LENGTH
    THEN [error |-> "GPS Telemetry Packet has invalid length."]
    ELSE LET pkt == SubSeq(input, 1, GPS_TELEMETRY_LENGTH)
             legacy == U16(pkt, 43) = 21845
         IN  IF ~IsFinite(F32(pkt, 69))
             THEN [error |-> "Could not decode GPS telemetry pkt."]
             ELSE [week |-> U16(pkt, 1),
                   iTOW |-> U32(pkt, 3),
                   leapS |-> U8(pkt, 7),
                   latitude |-> F32(pkt, 8),
                   longitude |-> F32(pkt, 12),
                   altitude |-> F32(pkt, 16),
                   ground_speed |-> F32(pkt, 20),
                   heading |-> F32(pkt, 24),
                   ascent_rate |-> F32(pkt, 28),
                   numSV |-> U8(pkt, 32),
                   gpsFix |-> U8(pkt, 33),
                   dynamic_model |-> U8(pkt, 34),
                   radio_temp |-> IF legacy THEN PyFloat("-999.0") ELSE round(F32(pkt, 35), 1),
                   cpu_temp |-> IF legacy THEN PyFloat("-999.0") ELSE round(F32(pkt, 39), 1),
                   cpu_speed |-> IF legacy THEN 0 ELSE U16(pkt, 43),
                   load_avg_1 |-> round(F32(pkt, 45), 3),
                   load_avg_5 |-> round(F32(pkt, 49), 3),
                   load_avg_15 |-> round(F32(pkt, 53), 3),
                   disk_percent |-> IF legacy THEN PyFloat("-1.0") ELSE round(F32(pkt, 57), 3),
                   lens_position |-> IF legacy THEN PyFloat("-999.0") ELSE round(F32(pkt, 61), 4),
                   sensor_temp |-> IF legacy THEN PyFloat("-999.0") ELSE round(F32(pkt, 65), 1),
                   focus_fom |-> IF legacy THEN PyFloat("-999.0") ELSE int_of(F32(pkt, 69)),
                   timestamp |-> gps_weeksecondstoutc(U16(pkt, 1), U32(pkt, 3), U8(pkt, 7)),
                   gpsFix_str |-> gpsFix_str(U8(pkt, 33)),
                   dynamic_model_str |-> dynamic_model_str(U8(pkt, 34)),
                   error |-> "None"]

\* struct.unpack(">BHIBffffffBBBffHfffffff", packet) after the length check
\* and the clip to 73 bytes; int(data[22]) raises inside the try on an
\* infinity or a NaN.
gps_telemetry_decoder(input) ==
    IF Len(input) < GPS_TELEMETRY_LENGTH
    THEN [error |-> "GPS Telemetry Packet has invalid length."]
    ELSE LET pkt == SubSeq(input, 1, GPS_TELEMETRY_LENGTH)
             legacy == U16(pkt, 43) = 21845
         IN  IF ~IsFinite(F32(pkt, 69))
             THEN [error |-> "Could not decode GPS telemetry pkt."]
             ELSE [week |-> U16(pkt, 1),
                   iTOW |-> U32(pkt, 3),
                   leapS |-> U8(pkt, 7),
                   latitude |-> F32(pkt, 8),
                   longitude |-> F32(pkt, 12),
                   altitude |-> F32(pkt, 16),
                   ground_speed |-> F32(pkt, 20),
                   heading |-> F32(pkt, 24),
                   ascent_rate |-> F32(pkt, 28),
                   numSV |-> U8(pkt, 32),
                   gpsFix |-> U8(pkt, 33),
                   dynamic_model |-> U8(pkt, 34),
                   radio_temp |-> IF legacy THEN PyFloat("-999.0") ELSE round(F32(pkt, 35), 1),
                   cpu_temp |-> IF legacy THEN PyFloat("-999.0") ELSE round(F32(pkt, 39), 1),
                   cpu_speed |-> IF legacy THEN 0 ELSE U16(pkt, 43),
                   load_avg_1 |-> IF legacy THEN PyInt(0) ELSE round(F32(pkt, 45), 3),
                   load_avg_5 |-> IF legacy THEN PyInt(0) ELSE round(F32(pkt, 49), 3),
                   load_avg_15 |-> IF legacy THEN PyInt(0) ELSE round(F32(pkt, 53), 3),
                   disk_percent |-> IF legacy THEN PyFloat("-1.0") ELSE round(F32(pkt, 57), 3),
                   lens_position |-> IF legacy THEN PyFloat("-999.0") ELSE round(F32(pkt, 61), 4),
                   sensor_temp |-> IF legacy THEN PyFloat("-999.0") ELSE round(F32(pkt, 65), 1),
                   focus_fom |-> IF legacy THEN PyFloat("-999.0") ELSE int_of(F32(pkt, 69)),
                   timestamp |-> gps_weeksecondstoutc(U16(pkt, 1), U32(pkt, 3), U8(pkt, 7)),
                   gpsFix_str |-> gpsFix_str(U8(pkt, 33)),
                   dynamic_model_str |-> dynamic_model_str(U8(pkt, 34)),
                   error |-> "None"]

\* int(altitude), int(ground_speed) and int(heading) are taken outside any
\* try: they raise on an infinity or a NaN.
gps_telemetry_string(pkt) ==
    LET gps_data == gps_telemetry_decoder(pkt)
    IN  IF gps_data.error # "None"
        THEN Return([fmt |-> "GPS: ERROR Could not decode.", args |-> <<>>])
        ELSE IF ~IsFinite(gps_data.altitude) \/ ~IsFinite(gps_data.ground_speed)
                \/ ~IsFinite(gps_data.heading)
        THEN Raise("ValueError")
        ELSE Return([fmt |-> "GPS: %s Lat/Lon: ...", args |-> <<gps_data>>])


\* Mutant: an orientation decoder that accepts a short packet.
orientation_telemetry_decoder_ShortOk(input) ==
    IF Len(input) < ORIENTATION_TELEMETRY_LENGTH
    THEN [week |-> 0, error |-> "None"]
    ELSE [error |-> "Could not decode Orientation telemetry packet."]

\* struct.unpack('>BHIBBBBBBBbfffffff', packet) after the length check and
\* the clip to 43 bytes.
orientation_telemetry_decoder(input) ==
    IF Len(input) < ORIENTATION_TELEMETRY_LENGTH
    THEN [error |-> "Orientation Telemetry Packet has invalid length."]
    ELSE LET pkt == SubSeq(input, 1, ORIENTATION_TELEMETRY_LENGTH)
         IN  [week |-> U16(pkt, 1),
              iTOW |-> U32(pkt, 3),
              leapS |-> U8(pkt, 7),
              timestamp |-> gps_weeksecondstoutc(U16(pkt, 1), U32(pkt, 3), U8(pkt, 7)),
              sys_status |-> U8(pkt, 8),
              sys_error |-> U8(pkt, 9),
              sys_cal |-> U8(pkt, 10),
              gyro_cal |-> U8(pkt, 11),
              accel_cal |-> U8(pkt, 12),
              magnet_cal |-> U8(pkt, 13),
              temp |-> S8(pkt, 14),
              euler_heading |-> F32(pkt, 15),
              euler_roll |-> F32(pkt, 19),
              euler_pitch |-> F32(pkt, 23),
              quaternion_x |-> F32(pkt, 27),
              quaternion_y |-> F32(pkt, 31),
              quaternion_z |-> F32(pkt, 35),
              quaternion_w |-> F32(pkt, 39),
              error |-> "None"]

\* %d and %.1f of ints and floats: nothing here raises.
orientation_telemetry_string(pkt) ==
    LET orientation_data == orientation_telemetry_decoder(pkt)
    IN  IF orientation_data.error # "None"
        THEN Return([fmt |-> "Orientation: ERROR Could not decode.", args |-> <<>>])
        ELSE Return([fmt |-> "Orientation: %s Status: ...", args |-> <<orientation_data>>])

\* bytes.decode() is UTF-8: whether b, from position i on, is well formed.
IsCont(b, i) == i <= Len(b) /\ b[i] >= 128 /\ b[i] <= 191
RECURSIVE IsUtf8(_, _)
IsUtf8(b, i) ==
    IF i > Len(b) THEN TRUE
    ELSE IF b[i] < 128 THEN IsUtf8(b, i + 1)
    ELSE IF b[i] >= 194 /\ b[i] <= 223
    THEN IsCont(b, i + 1) /\ IsUtf8(b, i + 2)
    ELSE IF b[i] >= 224 /\ b[i] <= 239
    THEN /\ IsCont(b, i + 1) /\ IsCont(b, i + 2)
         /\ (b[i] = 224 => b[i + 1] >= 160)
         /\ (b[i] = 237 => b[i + 1] <= 159)
         /\ IsUtf8(b, i + 3)
    ELSE IF b[i] >= 240 /\ b[i] <= 244
    THEN /\ IsCont(b, i + 1) /\ IsCont(b, i + 2) /\ IsCont(b, i + 3)
         /\ (b[i] = 240 => b[i + 1] >= 144)
         /\ (b[i] = 244 => b[i + 1] <= 143)
         /\ IsUtf8(b, i + 4)
    ELSE FALSE

\* struct '7p' at offset o: a count byte, then at most 6 bytes of text.
Pascal7(p, o) == SubSeq(p, o + 2, o + 1 + (IF p[o + 1] > 6 THEN 6 ELSE p[o + 1]))

\* struct.unpack('>BH7pBHIBffffffBBBBBBBBBbfffffff', packet) after the length
\* check and the clip to 80 bytes; data[2].decode() raises inside the try on
\* text that is not UTF-8.
image_telemetry_decoder(input) ==
    IF Len(input) < IMAGE_TELEMETRY_LENGTH
    THEN [error |-> "Image Telemetry Packet has invalid length."]
    ELSE LET pkt == SubSeq(input, 1, IMAGE_TELEMETRY_LENGTH)
         IN  IF ~IsUtf8(Pascal7(pkt, 3), 1)
             THEN [error |-> "Could not decode Image telemetry packet."]
             ELSE [sequence_number |-> U16(pkt, 1),
                   callsign |-> Pascal7(pkt, 3),
                   image_id |-> U8(pkt, 10),
                   week |-> U16(pkt, 11),
                   iTOW |-> U32(pkt, 13),
                   leapS |-> U8(pkt, 17),
                   latitude |-> F32(pkt, 18),
                   longitude |-> F32(pkt, 22),
                   altitude |-> F32(pkt, 26),
                   ground_speed |-> F32(pkt, 30),
                   heading |-> F32(pkt, 34),
                   ascent_rate |-> F32(pkt, 38),
                   numSV |-> U8(pkt, 42),
                   gpsFix |-> U8(pkt, 43),
                   dynamic_model |-> U8(pkt, 44),
                   timestamp |-> gps_weeksecondstoutc(U16(pkt, 11), U32(pkt, 13), U8(pkt, 17)),
                   gpsFix_str |-> gpsFix_str(U8(pkt, 43)),
                   dynamic_model_str |-> dynamic_model_str(U8(pkt, 44)),
                   sys_status |-> U8(pkt, 45),
                   sys_error |-> U8(pkt, 46),
                   sys_cal |-> U8(pkt, 47),
                   gyro_cal |-> U8(pkt, 48),
                   accel_cal |-> U8(pkt, 49),
                   magnet_cal |-> U8(pkt, 50),
                   temp |-> S8(pkt, 51),
                   euler_heading |-> F32(pkt, 52),
                   euler_roll |-> F32(pkt, 56),
                   euler_pitch |-> F32(pkt, 60),
                   quaternion_x |-> F32(pkt, 64),
                   quaternion_y |-> F32(pkt, 68),
                   quaternion_z |-> F32(pkt, 72),
                   quaternion_w |-> F32(pkt, 76),
                   error |-> "None"]

\* "Alt: %d m" % altitude is formatted outside any try: it raises on an
\* infinity or a NaN.
image_telemetry_string(pkt) ==
    LET image_data == image_telemetry_decoder(pkt)
    IN  IF image_data.error # "None"
        THEN Return([fmt |-> "Image Telemetry: ERROR Could not decode.", args |-> <<>>])
        ELSE IF ~IsFinite(image_data.altitude)
        THEN Raise("ValueError")
        ELSE Return([fmt |-> "Image Telemetry: %s ID #%d, ...", args |-> <<image_data>>])

\* packet[1] raises inside the try on fewer than 2 bytes; the record that is
\* returned otherwise has no 'error' key.
sec_payload_decode(pkt) ==
    IF Len(pkt) < 2
    THEN [error |-> "Could not decode secondary payload packet."]
    ELSE [id |-> U8(pkt, 1), payload |-> SubSeq(pkt, 3, Len(pkt))]

\* decode_packet_type(payload) is payload[0]: it raises on an empty payload.
sec_payload_packet_string(pkt) ==
    LET sec_payload == sec_payload_decode(pkt)
    IN  IF "error" \in DOMAIN sec_payload
        THEN Return([fmt |-> "Secondary Payload Packet: Error - Could not Decode.",
                     args |-> <<>>])
        ELSE IF sec_payload.payload = <<>>
        THEN Raise("IndexError")
        ELSE IF decode_packet_type(sec_payload.payload) = TEXT_MESSAGE
        THEN Return([fmt |-> "Secondary Payload Packet (ID: #%d) - %s",
                     args |-> <<sec_payload.id, text_message_string(sec_payload.payload).value>>])
        ELSE Return([fmt |-> "Secondary Payload Packet (ID: #%d) - Payload Type %d",
                     args |-> <<sec_payload.id, decode_packet_type(sec_payload.payload)>>])

\* ssdv_packet_info(packet) with every key of the dictionary it returns.
\* Mutant: width and height are taken as pixels, not as blocks of 16.
ssdv_packet_info_dict_Pixels(pkt) ==
    IF Len(pkt) # 256
    THEN [error |-> "ERROR: Invalid Packet Length"]
    ELSE IF pkt[1] # 85
    THEN [error |-> "ERROR: Not a SSDV Packet."]
    ELSE [callsign |-> ssdv_decode_callsign(SubSeq(pkt, 3, 6)),
          packet_type |-> IF pkt[2] = 102 THEN "FEC" ELSE "No-FEC",
          image_id |-> pkt[7],
          packet_id |-> pkt[8] * 256 + pkt[9],
          width |-> pkt[10],
          height |-> pkt[11],
          error |-> "None"]

ssdv_packet_info_dict(pkt) ==
    IF Len(pkt) # 256
    THEN [error |-> "ERROR: Invalid Packet Length"]
    ELSE IF pkt[1] # 85
    THEN [error |-> "ERROR: Not a SSDV Packet."]
    ELSE [callsign |-> ssdv_decode_callsign(SubSeq(pkt, 3, 6)),
          packet_type |-> IF pkt[2] = 102 THEN "FEC" ELSE "No-FEC",
          image_id |-> pkt[7],
          packet_id |-> pkt[8] * 256 + pkt[9],
          width |-> pkt[10] * 16,
          height |-> pkt[11] * 16,
          error |-> "None"]

ssdv_packet_string(pkt) ==
    LET packet_info == ssdv_packet_info_dict(pkt)
    IN  IF packet_info.error # "None"
        THEN Return([fmt |-> "SSDV: Unable to decode.", args |-> <<>>])
        ELSE Return([fmt |-> "SSDV: %s, Callsign: %s, Img:%d, Pkt:%d, %dx%d",
                     args |-> <<packet_info>>])

\* Mutant: a renderer that takes an unknown first byte for an image packet.
packet_to_string_NoUnknown(pkt) ==
    IF pkt = <<>> THEN Raise("IndexError")
    ELSE LET packet_type == decode_packet_type(pkt)
         IN  CASE packet_type = TEXT_MESSAGE -> text_message_string(pkt)
               [] packet_type = GPS_TELEMETRY -> gps_telemetry_string(pkt)
               [] packet_type = ORIENTATION_TELEMETRY -> orientation_telemetry_string(pkt)
               [] packet_type = SEC_PAYLOAD_TELEMETRY -> sec_payload_packet_string(pkt)
               [] packet_type = IMAGE_TELEMETRY -> image_telemetry_string(pkt)
               [] OTHER -> ssdv_packet_string(pkt)

\* decode_packet_type(packet) is packet[0]: it raises on an empty packet.
packet_to_string(pkt) ==
    IF pkt = <<>> THEN Raise("IndexError")
    ELSE LET packet_type == decode_packet_type(pkt)
         IN  CASE packet_type = TEXT_MESSAGE -> text_message_string(pkt)
               [] packet_type = GPS_TELEMETRY -> gps_telemetry_string(pkt)
               [] packet_type = ORIENTATION_TELEMETRY -> orientation_telemetry_string(pkt)
               [] packet_type = SEC_PAYLOAD_TELEMETRY -> sec_payload_packet_string(pkt)
               [] packet_type = IMAGE_TELEMETRY -> image_telemetry_string(pkt)
               [] packet_type = SSDV -> ssdv_packet_string(pkt)
               [] OTHER -> Return([fmt |-> "Unknown Packet Type: %d",
                                   args |-> <<packet_type>>])


(***************************************************************************)
(* The byte strings handed to the decoders.                                *)
(***************************************************************************)
\* Bytes o.. (counted from 0) of p replaced by b.
Put(p, o, b) ==
    [i \in 1..Len(p) |-> IF i > o /\ i <= o + Len(b) THEN b[i - o] ELSE p[i]]

\* n bytes starting with tag; the others are below 128, so that every float
\* in them is finite and every text is ASCII.
Body(tag, n) == [i \in 1..n |-> IF i = 1 THEN tag ELSE (i * 7 + tag) % 128]

NaN == <<127, 192, 0, 0>>
Infinity == <<127, 128, 0, 0>>
LegacyClock == <<85, 85>>

\* GPS packets: the clock field holding 21845 or not, the focus figure and
\* the altitude finite or not, and a packet of an old transmitter, all 0x55
\* from offset 35 on.
GpsPackets ==
    LET base == Body(GPS_TELEMETRY, GPS_TELEMETRY_LENGTH)
    IN  {Put(Put(Put(base, 43, clock), 69, focus), 16, alt) :
            clock \in {LegacyClock, <<0, 100>>},
            focus \in {<<66, 0, 0, 0>>, NaN, Infinity},
            alt \in {<<67, 0, 0, 0>>, NaN}}
        \cup {SubSeq(base, 1, 35) \o Rep(85, 38)}

OrientationPackets ==
    LET base == Body(ORIENTATION_TELEMETRY, ORIENTATION_TELEMETRY_LENGTH)
    IN  {base, Put(base, 14, <<200>>), Put(base, 15, NaN)}

\* Image telemetry packets: the callsign ASCII, not UTF-8, two-byte UTF-8 or
\* with a count above 6, and the altitude finite or not.
ImageTelemetryPackets ==
    LET base == Body(IMAGE_TELEMETRY, IMAGE_TELEMETRY_LENGTH)
    IN  {Put(Put(base, 3, text), 26, alt) :
            text \in {<<6, 78, 48, 67, 65, 76, 76>>, <<1, 255>>,
                      <<2, 195, 169>>, <<200, 65, 66, 67, 68, 69, 70>>},
            alt \in {<<67, 0, 0, 0>>, Infinity}}

\* A packet as sent, padded by the transmitter; with one byte more; with
\* other bytes behind it; as it is; and cut short.
Lengths(p) ==
    {Bytes(p),
     Bytes(p \o Rep(85, 256 - Len(p))),
     Bytes(p \o <<0>>),
     Bytes(p \o Rep(255, 8)),
     Bytes(SubSeq(p, 1, Len(p) - 1)),
     Bytes(Slice(p, 0, 44))}

TextPackets ==
    {<<TEXT_MESSAGE>>, <<TEXT_MESSAGE, 2>>, <<TEXT_MESSAGE, 2, 0>>,
     <<TEXT_MESSAGE, 2, 0, 7>>,
     <<TEXT_MESSAGE, 2, 0, 7, 72, 73>>,
     <<TEXT_MESSAGE, 2, 0, 7, 72, 200>>,
     <<TEXT_MESSAGE, 2, 0, 7, 72, 73>> \o Rep(85, 250),
     <<TEXT_MESSAGE, 9, 0, 7, 72, 73>>}

SecPayloadPackets ==
    {<<SEC_PAYLOAD_TELEMETRY>>, <<SEC_PAYLOAD_TELEMETRY, 1>>,
     <<SEC_PAYLOAD_TELEMETRY, 1, 9>>,
     <<SEC_PAYLOAD_TELEMETRY, 1, TEXT_MESSAGE, 2, 0, 7, 72, 73>>,
     <<SEC_PAYLOAD_TELEMETRY, 1, TEXT_MESSAGE>>}

OtherPackets ==
    {<<>>, <<IDLE>>, <<255>>, <<153>> \o Rep(85, 255), Tagged(SSDV, 100),
     <<GPS_TELEMETRY>>, <<ORIENTATION_TELEMETRY>>, <<IMAGE_TELEMETRY>>}
    \cup {StdinChunks[h, 0] : h \in ChunkHeaders}

\* GPS, orientation and image telemetry packets as sent (padded to 256
\* bytes) with the week, the time of week and the leap seconds at their ends
\* and in between: week 0, 2290 and 65535; 0 ms, 999 ms, 200 s, one
\* millisecond short of a week and 2^32 - 1 ms; 0, 18 and 255 leap seconds.
ClockPackets ==
    {Put(Put(Put(Body(site[1], 256), site[2], week), site[2] + 2, tow), site[2] + 6, <<leap>>) :
        site \in {<<GPS_TELEMETRY, 1>>, <<ORIENTATION_TELEMETRY, 1>>, <<IMAGE_TELEMETRY, 11>>},
        week \in {<<0, 0>>, <<8, 242>>, <<255, 255>>},
        tow \in {<<0, 0, 0, 0>>, <<0, 0, 3, 231>>, <<0, 3, 13, 64>>,
                 <<36, 12, 131, 255>>, <<255, 255, 255, 255>>},
        leap \in {0, 18, 255}}

\* The base-40 code of a callsign as the image codec of the transmitter
\* writes it: the sum of index(s[i]) * 40^i, first character least
\* significant, as four bytes, most significant first.
RECURSIVE Base40Code(_)
Base40Code(s) ==
    IF s = <<>> THEN <<0, 0, 0, 0>>
    ELSE LET rest == Base40Code(Tail(s))
             index == CHOOSE i \in 0..39 : ssdv_callsign_alphabet[i + 1] = Head(s)
             low == (rest[3] * 256 + rest[4]) * 40 + index
             high == (rest[1] * 256 + rest[2]) * 40 + low \div 65536
         IN  <<high \div 256, high % 256, (low % 65536) \div 256, low % 256>>

\* Callsigns of 1 to 6 characters from 0-9 and A-Z: every one of one
\* character, those of two with the first and last digits and letters, and
\* some of three to six, the largest code among them.
Callsigns ==
    LET Alnum == {ssdv_callsign_alphabet[i] : i \in (2..11) \cup (15..40)}
    IN  {<<a>> : a \in Alnum} \cup {<<a, b>> : a, b \in {"0", "9", "A", "Z"}}
        \cup {<<"A", "0", "Z">>, <<"W", "1", "A", "W">>, <<"V", "K", "5", "Q", "I">>,
              <<"N", "0", "C", "A", "L", "L">>, <<"0", "0", "0", "0", "0", "0">>,
              <<"Z", "Z", "Z", "Z", "Z", "Z">>, <<"0", "Z", "Z", "Z", "Z", "Z">>,
              <<"Z", "0", "0", "0", "0", "9">>}

\* Image chunks as received: 256 bytes behind the tag 0x55, with the code of
\* a callsign, or a code that is none (zero, digits of '-', 2^32 - 1), and
\* with the FEC byte, the image id, the packet id and the two size bytes
\* at their ends and in between.
SsdvHeaderPackets ==
    {Put(Tagged(SSDV, 256), 1, <<102>> \o code \o <<7, 1, 2, 40, 30>>) :
        code \in {Base40Code(s) : s \in Callsigns}
                 \cup {<<0, 0, 0, 0>>, <<0, 0, 0, 11>>, <<0, 0, 0, 40>>, <<0, 0, 1, 224>>,
                       <<244, 35, 255, 255>>, <<244, 36, 0, 0>>, <<255, 255, 255, 255>>}}
    \cup {Put(Tagged(SSDV, 256), 1, <<flag>> \o <<0, 0, 2, 102>> \o <<image>> \o seq \o size) :
            flag \in {0, 102, 103}, image \in {0, 255},
            seq \in {<<0, 0>>, <<1, 0>>, <<255, 255>>},
            size \in {<<0, 0>>, <<40, 30>>, <<255, 255>>}}

DecodeInputs ==
    UNION {Lengths(p) : p \in GpsPackets \cup OrientationPackets \cup ImageTelemetryPackets}
    \cup TextPackets \cup SecPayloadPackets \cup OtherPackets \cup ClockPackets
    \cup SsdvHeaderPackets

\* One call of a decoder or renderer.
Called(fn, pkt, outcome) ==
    /\ call' = [fn |-> fn, input |-> pkt, raised |-> outcome.raised,
                result |-> outcome.value]
    /\ UNCHANGED <<txvars, rxvars, threads, appvars>>

decode_text_message_call(pkt) ==
    /\ call = NoCall
    /\ Called("decode_text_message", pkt, Return(decode_text_message(pkt)))
gps_telemetry_decoder_call(pkt) ==
    /\ call = NoCall
    /\ Called("gps_telemetry_decoder", pkt, Return(gps_telemetry_decoder(pkt)))
orientation_telemetry_decoder_call(pkt) ==
    /\ call = NoCall
    /\ Called("orientation_telemetry_decoder", pkt, Return(orientation_telemetry_decoder(pkt)))
image_telemetry_decoder_call(pkt) ==
    /\ call = NoCall
    /\ Called("image_telemetry_decoder", pkt, Return(image_telemetry_decoder(pkt)))
sec_payload_decode_call(pkt) ==
    /\ call = NoCall
    /\ Called("sec_payload_decode", pkt, Return(sec_payload_decode(pkt)))
ssdv_packet_info_call(pkt) ==
    /\ call = NoCall
    /\ Called("ssdv_packet_info", pkt, Return(ssdv_packet_info_dict(pkt)))
packet_to_string_call(pkt) ==
    /\ call = NoCall
    /\ Called("packet_to_string", pkt, packet_to_string(pkt))

DecodeNext ==
    \/ \E pkt \in DecodeInputs : decode_text_message_call(pkt)
    \/ \E pkt \in DecodeInputs : gps_telemetry_decoder_call(pkt)
    \/ \E pkt \in DecodeInputs : orientation_telemetry_decoder_call(pkt)
    \/ \E pkt \in DecodeInputs : image_telemetry_decoder_call(pkt)
    \/ \E pkt \in DecodeInputs : sec_payload_decode_call(pkt)
    \/ \E pkt \in DecodeInputs : ssdv_packet_info_call(pkt)
    \/ \E pkt \in DecodeInputs : packet_to_string_call(pkt)

SpecDecode == Init /\ [][DecodeNext]_vars


TypedDecoders ==
    {"decode_text_message", "gps_telemetry_decoder", "orientation_telemetry_decoder",
     "image_telemetry_decoder", "sec_payload_decode", "ssdv_packet_info"}

\* C15: for every byte sequence, the empty one included, each typed decoder
\* and packet_to_string returns without raising, and a decoder returns either
\* a record whose 'error' field is 'None' or a result that carries only an
\* error description.
C15_DecodersNeverRaise ==
    call.fn \in TypedDecoders \cup {"packet_to_string"} =>
        /\ ~call.raised
        /\ call.fn \in TypedDecoders =>
              /\ "error" \in DOMAIN call.result
              /\ call.result.error # "None" => DOMAIN call.result = {"error"}
              /\ call.result.error = "None" => DOMAIN call.result # {"error"}

DeclaredLength(fn) ==
    CASE fn = "gps_telemetry_decoder" -> GPS_TELEMETRY_LENGTH
      [] fn = "orientation_telemetry_decoder" -> ORIENTATION_TELEMETRY_LENGTH
      [] fn = "image_telemetry_decoder" -> IMAGE_TELEMETRY_LENGTH

LengthCheckedDecoders ==
    {"gps_telemetry_decoder", "orientation_telemetry_decoder", "image_telemetry_decoder"}

\* C16: for GPS (73 bytes), orientation (43) and image telemetry (80), the
\* result of decoding an input longer than the declared length L is the
\* result of decoding its first L bytes.
C16_BytesBeyondLengthIgnored ==
    (call.fn \in LengthCheckedDecoders /\ Len(call.input) > DeclaredLength(call.fn)) =>
        LET first == SubSeq(call.input, 1, DeclaredLength(call.fn))
        IN  call.result =
                CASE call.fn = "gps_telemetry_decoder" -> gps_telemetry_decoder(first)
                  [] call.fn = "orientation_telemetry_decoder" ->
                         orientation_telemetry_decoder(first)
                  [] call.fn = "image_telemetry_decoder" -> image_telemetry_decoder(first)

C16_Witness ==
    /\ call.fn = "gps_telemetry_decoder"
    /\ Len(call.input) = 256
    /\ call.result.error = "None"
    /\ call.result.cpu_speed = 100

\* C17: for GPS, orientation and image telemetry, an input shorter than the
\* declared length decodes to a result that carries an error description and
\* nothing else.
C17_ShortInputIsError ==
    (call.fn \in LengthCheckedDecoders /\ Len(call.input) < DeclaredLength(call.fn)) =>
        /\ DOMAIN call.result = {"error"}
        /\ call.result.error # "None"

C17_Witness ==
    /\ call.fn = "orientation_telemetry_decoder"
    /\ Len(call.input) = ORIENTATION_TELEMETRY_LENGTH - 1

\* The extension fields of a decoded GPS record.
Overridden(r) ==
    /\ r.radio_temp = PyFloat("-999.0")
    /\ r.cpu_temp = PyFloat("-999.0")
    /\ r.lens_position = PyFloat("-999.0")
    /\ r.sensor_temp = PyFloat("-999.0")
    /\ r.disk_percent = PyFloat("-1.0")
    /\ r.cpu_speed = 0
    /\ r.load_avg_1 = PyInt(0)
    /\ r.load_avg_5 = PyInt(0)
    /\ r.load_avg_15 = PyInt(0)

AsDecoded(r, p) ==
    /\ r.radio_temp = round(F32(p, 35), 1)
    /\ r.cpu_temp = round(F32(p, 39), 1)
    /\ r.cpu_speed = U16(p, 43)
    /\ r.load_avg_1 = round(F32(p, 45), 3)
    /\ r.load_avg_5 = round(F32(p, 49), 3)
    /\ r.load_avg_15 = round(F32(p, 53), 3)
    /\ r.disk_percent = round(F32(p, 57), 3)
    /\ r.lens_position = round(F32(p, 61), 4)
    /\ r.sensor_temp = round(F32(p, 65), 1)
    /\ r.focus_fom = int_of(F32(p, 69))

\* C19 as stated: for a GPS packet of full length, the record carries the
\* override values if the u16 at offset 43 is 21845, whatever the other bytes
\* of the extension region are, and the decoded values otherwise.
C19_LegacyOverrideWhateverTheBytes ==
    (call.fn = "gps_telemetry_decoder" /\ Len(call.input) >= GPS_TELEMETRY_LENGTH) =>
        /\ call.result.error = "None"
        /\ IF U16(call.input, 43) = 21845
           THEN Overridden(call.result)
           ELSE AsDecoded(call.result, call.input)

\* C19, amended: for a GPS packet that decodes (full length, and the float
\* at offset 69 finite), the record carries the override values if and only
\* if the u16 at offset 43 is 21845, and the decoded values otherwise; a
\* packet whose float at offset 69 is an infinity or a NaN decodes to an
\* error only, whatever its u16 at offset 43.
C19_LegacyOverride ==
    (call.fn = "gps_telemetry_decoder" /\ Len(call.input) >= GPS_TELEMETRY_LENGTH) =>
        IF IsFinite(F32(call.input, 69))
        THEN /\ call.result.error = "None"
             /\ IF U16(call.input, 43) = 21845
                THEN Overridden(call.result)
                ELSE AsDecoded(call.result, call.input) /\ ~Overridden(call.result)
        ELSE DOMAIN call.result = {"error"}

C19_Witness ==
    /\ call.fn = "gps_telemetry_decoder"
    /\ Len(call.input) = 256
    /\ call.result.error = "None"
    /\ U16(call.input, 43) = 21845
    /\ F32(call.input, 35) # F32(<<85, 85, 85, 85>>, 0)
    /\ Overridden(call.result)


(***************************************************************************)
(* The dispatch of the receive loop over every packet type.                *)
(***************************************************************************)
KnownTags == TelemetryTags \cup {SSDV, IDLE}

\* One packet of each known type, two of unknown types and a malformed image
\* packet.
TypePackets ==
    {Tagged(t, 256) : t \in KnownTags \ {SSDV}}
    \cup {Tagged(255, 256), Tagged(153, 256), Tagged(SSDV, 100)}

\* Chunks of two images.
DispatchHeaders == {<<<<0, 0, 2, 102>>, 1, TRUE>>, <<<<0, 0, 2, 102>>, 2, FALSE>>}

RxDispatchNext ==
    \/ parse_args(FALSE, <<>>)
    \/ RxEOF
    \/ \E data \in TypePackets : RxIdle(data)
    \/ \E data \in TypePackets : RxTelemetry(data)
    \/ \E data \in TypePackets : RxImageError(data)
    \/ \E h \in DispatchHeaders, returncode \in {0, 256} :
          RxImageNewKey(StdinChunks[h, Len(stream)], returncode)
    \/ \E h \in DispatchHeaders, returncode \in {0} :
          RxImageSameKey(StdinChunks[h, Len(stream)], returncode)
    \/ \E data \in TypePackets : RxUnknown(data)

SpecRXDispatch == Init /\ [][RxDispatchNext]_vars

\* C18: a step on a packet whose first byte is none of the seven known tags
\* changes neither the record of broadcasts and log entries nor the
\* reassembler, and the packet is rendered as "Unknown Packet Type" without
\* raising; an idle packet is skipped, a packet of each of the five
\* telemetry types is broadcast and logged under its own type, and an image
\* packet is handled by the reassembler or reported as malformed.
C18_UnknownTypeIgnored ==
    [][ stream' # stream =>
          LET data == Last(stream')
              t == decode_packet_type(data)
              reassembler == <<current_image, current_callsign, current_packet_count,
                               rxtemp, temp_f>>
          IN  /\ t \notin KnownTags =>
                    /\ events' = events
                    /\ reassembler' = reassembler
                    /\ rx_pc' = rx_pc
                    /\ packet_to_string(data) =
                           Return([fmt |-> "Unknown Packet Type: %d", args |-> <<t>>])
              /\ t = IDLE => events' = events /\ reassembler' = reassembler
              /\ t \in TelemetryTags =>
                    /\ Len(events') = Len(events) + 1
                    /\ Last(events').type = "telemetry"
                    /\ Last(events').image = t
                    /\ reassembler' = reassembler
                    /\ packet_to_string(data).value.fmt # "Unknown Packet Type: %d"
              /\ t = SSDV =>
                    /\ events' # events \/ rxtemp' # rxtemp
                    /\ \A i \in (Len(events) + 1)..Len(events') :
                          events'[i].type # "telemetry"
      ]_vars

C18_Witness ==
    /\ Len(stream) = 3
    /\ decode_packet_type(stream[1]) = SSDV
    /\ decode_packet_type(stream[2]) = 153
    /\ decode_packet_type(stream[3]) = ORIENTATION_TELEMETRY
    /\ rxtemp = stream[1]
    /\ Len(events) = 1


(***************************************************************************)
(* tx/PacketTX.py with start_tx() as written: each call sets               *)
(* transmit_active and starts one more thread running tx_thread.  A thread *)
(* takes one step per access to the shared state; radio.transmit_packet is *)
(* a call that begins in one step and returns in a later one.              *)
(***************************************************************************)
\* start_tx() calls made.
MaxThreads == 2

Thread(pc, frame) == [pc |-> pc, frame |-> frame]

\* self.transmit_active = True; Thread(target=self.tx_thread).start()
start_tx_thread ==
    /\ Len(threads) < MaxThreads
    /\ transmit_active' = TRUE
    /\ threads' = Append(threads, Thread("while", <<>>))
    /\ UNCHANGED <<call, appvars, rxvars, fec, ssdv_queue, telemetry_queue, idle_message, tx_pc,
                   packet, seen, prod, calls, enq_log, radio_tx, radio_shutdowns>>

\* while self.transmit_active: and the two qsize() tests; with both queues
\* empty the thread calls radio.transmit_packet(self.idle_message).
tx_thread_while(i) ==
    /\ i <= Len(threads)
    /\ threads[i].pc = "while"
    /\ threads' = [threads EXCEPT ![i] =
          IF ~transmit_active THEN Thread("shutdown", <<>>)
          ELSE IF Queue_qsize(telemetry_queue) > 0 THEN Thread("get_telemetry", <<>>)
          ELSE IF Queue_qsize(ssdv_queue) > 0 THEN Thread("get_ssdv", <<>>)
          ELSE Thread("transmit_packet", idle_message)]
    /\ UNCHANGED <<call, appvars, rxvars, txvars>>

\* packet = self.telemetry_queue.get_nowait(), which raises queue.Empty and
\* ends the thread when another thread took the frame; then
\* radio.transmit_packet(packet) begins.
tx_thread_get_telemetry(i) ==
    /\ i <= Len(threads)
    /\ threads[i].pc = "get_telemetry"
    /\ IF telemetry_queue = <<>>
       THEN /\ threads' = [threads EXCEPT ![i] = Thread("raised", <<>>)]
            /\ UNCHANGED telemetry_queue
       ELSE /\ threads' = [threads EXCEPT ![i] =
                   Thread("transmit_packet", Queue_get_nowait(telemetry_queue).item)]
            /\ telemetry_queue' = Queue_get_nowait(telemetry_queue).rest
    /\ UNCHANGED <<call, appvars, rxvars, fec, ssdv_queue, transmit_active, idle_message, tx_pc,
                   packet, seen, prod, calls, enq_log, radio_tx, radio_shutdowns>>

\* packet = self.ssdv_queue.get_nowait(); radio.transmit_packet(packet) begins.
tx_thread_get_ssdv(i) ==
    /\ i <= Len(threads)
    /\ threads[i].pc = "get_ssdv"
    /\ IF ssdv_queue = <<>>
       THEN /\ threads' = [threads EXCEPT ![i] = Thread("raised", <<>>)]
            /\ UNCHANGED ssdv_queue
       ELSE /\ threads' = [threads EXCEPT ![i] =
                   Thread("transmit_packet", Queue_get_nowait(ssdv_queue).item)]
            /\ ssdv_queue' = Queue_get_nowait(ssdv_queue).rest
    /\ UNCHANGED <<call, appvars, rxvars, fec, telemetry_queue, transmit_active, idle_message, tx_pc,
                   packet, seen, prod, calls, enq_log, radio_tx, radio_shutdowns>>

\* radio.transmit_packet(...) returns; the loop goes round.
tx_thread_transmitted(i) ==
    /\ i <= Len(threads)
    /\ threads[i].pc = "transmit_packet"
    /\ threads' = [threads EXCEPT ![i] = Thread("while", <<>>)]
    /\ UNCHANGED <<call, appvars, rxvars, txvars>>

\* print("Closing Thread"); self.radio.shutdown()
tx_thread_shutdown(i) ==
    /\ i <= Len(threads)
    /\ threads[i].pc = "shutdown"
    /\ threads' = [threads EXCEPT ![i] = Thread("returned", <<>>)]
    /\ radio_shutdowns' = radio_shutdowns + 1
    /\ UNCHANGED <<call, appvars, rxvars, fec, ssdv_queue, telemetry_queue, transmit_active,
                   idle_message, tx_pc, packet, seen, prod, calls, enq_log, radio_tx>>

ThreadIds == 1..(MaxThreads + 1)

TxThreadsNext ==
    \/ start_tx_thread
    \/ close
    \/ \E t \in Producers, r \in Repeats : queue_telemetry_packet(t, r)
    \/ \E t \in Producers : queue_image_packet(t)
    \/ \E t \in Producers : telemetry_put(t)
    \/ \E t \in Producers : ssdv_put(t)
    \/ \E i \in ThreadIds : tx_thread_while(i)
    \/ \E i \in ThreadIds : tx_thread_get_telemetry(i)
    \/ \E i \in ThreadIds : tx_thread_get_ssdv(i)
    \/ \E i \in ThreadIds : tx_thread_transmitted(i)
    \/ \E i \in ThreadIds : tx_thread_shutdown(i)

SpecTXThreads == Init /\ [][TxThreadsNext]_vars

Running == {i \in 1..Len(threads) : threads[i].pc \notin {"returned", "raised"}}
Transmitting == {i \in 1..Len(threads) : threads[i].pc = "transmit_packet"}

\* C20: whatever start_tx, close and enqueue calls are made, at most one
\* scheduler thread is running and at most one call of radio.transmit_packet
\* is in progress.
C20_OneTransmitContext ==
    /\ Cardinality(Running) <= 1
    /\ Cardinality(Transmitting) <= 1


(***************************************************************************)
(* The scheduler thread under a fair thread scheduler: a thread that can   *)
(* take its next step eventually takes it.                                 *)
(***************************************************************************)
tx_thread ==
    \/ TxLoop
    \/ TxCheckTelemetry
    \/ TxSendTelemetry
    \/ TxCheckSsdv
    \/ TxSendSsdv
    \/ TxSendIdle
    \/ TxShutdown

SpecTXFair == Init /\ [][TxNext]_vars /\ WF_vars(tx_thread)

\* C21: once close() has been called on a running PacketTX, the scheduler
\* thread hands no frame to the radio after it has seen transmit_active
\* cleared, calls radio.shutdown() exactly once and ends; no frame is handed
\* to the radio after radio.shutdown().
C21_CloseStopsScheduler ==
    /\ [](radio_shutdowns <= 1)
    /\ [](tx_pc = "done" <=> radio_shutdowns = 1)
    /\ [][ (tx_pc \in {"closing", "done"} \/ radio_shutdowns > 0) =>
               /\ radio_tx' = radio_tx
               /\ tx_pc' \in {"closing", "done"} ]_vars
    /\ (tx_pc # "not_started" /\ ~transmit_active) ~> (tx_pc = "done")

C21_Witness ==
    /\ tx_pc = "done"
    /\ radio_shutdowns = 1
    /\ radio_tx # <<>>
    /\ LastHanded(radio_tx).src = "telemetry"


(***************************************************************************)
(* The receive loop under each value of --partialupdate.                   *)
(***************************************************************************)
RxPartialNext ==
    \/ \E text \in {<<0>>, <<1>>, <<2>>, <<3>>} : parse_args(TRUE, text)
    \/ parse_args(FALSE, <<>>)
    \/ RxEOF
    \/ \E data \in {Tagged(IDLE, 256), Tagged(SSDV, 100)} : RxIdle(data)
    \/ \E data \in {Tagged(IDLE, 256), Tagged(SSDV, 100)} : RxImageError(data)
    \/ \E h \in DispatchHeaders, returncode \in {0, 256} :
          RxImageNewKey(StdinChunks[h, Len(stream)], returncode)
    \/ \E h \in DispatchHeaders, returncode \in {0, 256} :
          RxImageSameKey(StdinChunks[h, Len(stream)], returncode)

SpecRXPartial == Init /\ [][RxPartialNext]_vars

\* The decoder runs on rxtemp.bin that produce the preview rxtemp.jpg.
Previews(log) == SelectSeq(log, LAMBDA e : e.type = "decode" /\ ~e.final)

\* C22: a preview is run in exactly those steps that append a chunk of the
\* current key while --partialupdate N is given, N is not 0 and the count
\* after the append is a multiple of N; such a step leaves the key alone,
\* counts and appends the chunk as a step without preview does, and the
\* preview decodes the buffer as it stands after the append; every flush
\* holds exactly the chunks of its run; without --partialupdate no preview
\* is run.
C22_PreviewOnMultiplesOnly ==
    /\ [](~args_partialupdate.given => Previews(events) = <<>>)
    /\ [](\A k \in 1..Len(Flushes(events)) :
              Flushes(events)[k].data = Concat(RunStarts[k], RunStarts[k + 1] - 1))
    /\ [][ LET new == Len(Previews(events')) - Len(Previews(events))
               N == int(args_partialupdate.text)
           IN  /\ new \in {0, 1}
               /\ new = 1 <=>
                     /\ stream' # stream
                     /\ Valid(Last(stream'))
                     /\ KeyOf(Last(stream')) = CurrentKey
                     /\ args_partialupdate.given
                     /\ N # 0
                     /\ (current_packet_count + 1) % N = 0
               /\ new = 1 =>
                     /\ CurrentKey' = CurrentKey
                     /\ current_packet_count' = current_packet_count + 1
                     /\ rxtemp' = rxtemp \o Last(stream')
                     /\ Last(Previews(events')).data = rxtemp'
         ]_vars

C22_Witness ==
    /\ int(args_partialupdate.text) = 3
    /\ Len(Previews(events)) = 1
    /\ Len(Previews(events)[1].data) = 768
    /\ Len(Flushes(events)) = 1
    /\ Flushes(events)[1].data = Previews(events)[1].data


\* C23: a step that reads a packet with the idle tag 0x56 calls no decoder,
\* broadcasts and logs nothing, runs nothing and leaves the key, the count,
\* the buffer, the file and the position of the loop as they are.
C23_IdleDiscarded ==
    [][ (stream' # stream /\ decode_packet_type(Last(stream')) = IDLE) =>
            /\ stream' = Append(stream, Last(stream'))
            /\ UNCHANGED <<events, call, current_image, current_callsign,
                           current_packet_count, rxtemp, temp_f, rx_pc,
                           args_hex, args_partialupdate>>
      ]_vars

C23_Witness ==
    /\ Len(stream) = 3
    /\ Valid(stream[1])
    /\ decode_packet_type(stream[2]) = IDLE
    /\ decode_packet_type(stream[3]) = IDLE
    /\ current_packet_count = 1
    /\ rxtemp = stream[1]
    /\ events = <<>>


\* C24: whenever the GPS, orientation or image telemetry decoder returns a
\* decoded packet, its timestamp is 1980-01-06T00:00:00 plus 7 x week days
\* plus iTOW milliseconds less leapS seconds, week, iTOW and leapS being the
\* fields of the packet.  The date is counted back to days since the epoch
\* by the proleptic Gregorian day number, and the milliseconds are
\* multiplied out in 16-bit halves.
C24_TimestampFromGpsTime ==
    (call.fn \in {"gps_telemetry_decoder", "orientation_telemetry_decoder",
                  "image_telemetry_decoder"}
     /\ call.result.error = "None") =>
        LET o == IF call.fn = "image_telemetry_decoder" THEN 11 ELSE 1
            week == U16(call.input, o)
            iTOW == U32(call.input, o + 2)
            leapS == U8(call.input, o + 6)
            t == call.result.timestamp
            Before(y) == 365 * (y - 1) + (y - 1) \div 4 - (y - 1) \div 100 + (y - 1) \div 400
            Leap(y) == y % 4 = 0 /\ (y % 100 # 0 \/ y % 400 = 0)
            Cumulative == <<0, 31, 59, 90, 120, 151, 181, 212, 243, 273, 304, 334>>
            Ordinal(y, mo, d) ==
                Before(y) + Cumulative[mo] + (IF mo > 2 /\ Leap(y) THEN 1 ELSE 0) + d
            sinceEpoch == (Ordinal(t.year, t.month, t.day) - Ordinal(1980, 1, 6) - 7 * week) * 86400
                          + t.hour * 3600 + t.minute * 60 + t.second + leapS
            low == (sinceEpoch % 65536) * 1000 + t.microsecond \div 1000
        IN  /\ t.month \in 1..12 /\ t.day \in 1..31
            /\ t.hour \in 0..23 /\ t.minute \in 0..59 /\ t.second \in 0..59
            /\ t.microsecond \in {ms * 1000 : ms \in 0..999}
            /\ sinceEpoch >= 0
            /\ iTOW = <<(sinceEpoch \div 65536) * 1000 + low \div 65536, low % 65536>>

\* The example: week 2290, 200000 ms, 18 leap seconds, decoded from an image
\* telemetry packet as 2023-11-26T00:03:02, 16030 days and 182 s after the
\* epoch.
C24_Witness ==
    /\ call.fn = "image_telemetry_decoder"
    /\ call.result.error = "None"
    /\ U16(call.input, 11) = 2290
    /\ U32(call.input, 13) = <<3, 3392>>
    /\ U8(call.input, 17) = 18
    /\ call.result.timestamp = [year |-> 2023, month |-> 11, day |-> 26, hour |-> 0,
                                minute |-> 3, second |-> 2, microsecond |-> 0]


\* C25: the callsign that ssdv_packet_info decodes from bytes 2..5 has at
\* most seven characters (the division by 40 ends); when the four bytes are
\* the base-40 code of a callsign of 1 to 6 characters from 0-9 and A-Z, it
\* is that callsign; and a decoded callsign without '-' encodes back to the
\* four bytes it was decoded from.
C25_CallsignRoundTrip ==
    (call.fn = "ssdv_packet_info" /\ call.result.error = "None") =>
        LET code == SubSeq(call.input, 3, 6)
            s == call.result.callsign
        IN  /\ Len(s) <= 7
            /\ \A t \in Callsigns : Base40Code(t) = code => s = t
            /\ (\A i \in 1..Len(s) : s[i] # "-") => Base40Code(s) = code

\* The largest code of a six-character callsign, 40^6 - 1, above 2^31.
C25_Witness ==
    /\ call.fn = "ssdv_packet_info"
    /\ call.result.error = "None"
    /\ SubSeq(call.input, 3, 6) = Base40Code(<<"Z", "Z", "Z", "Z", "Z", "Z">>)
    /\ call.input[3] >= 128
    /\ call.result.callsign = <<"Z", "Z", "Z", "Z", "Z", "Z">>


(***************************************************************************)
(* ssdv_packet_info called on its own, and the receive loop fed image      *)
(* packets of the right and of a wrong length.                             *)
(***************************************************************************)
RxInfoNext ==
    \/ \E pkt \in SsdvHeaderPackets \cup OtherPackets : ssdv_packet_info_call(pkt)
    \/ parse_args(FALSE, <<>>)
    \/ RxEOF
    \/ \E data \in {Tagged(SSDV, 100), Tagged(SSDV, 257)} : RxImageError(data)
    \/ \E h \in DispatchHeaders : RxImageNewKey(StdinChunks[h, Len(stream)], 0)
    \/ \E h \in DispatchHeaders : RxImageSameKey(StdinChunks[h, Len(stream)], 0)

SpecRXInfo == Init /\ [][RxInfoNext]_vars

\* C26: ssdv_packet_info returns, for 256 bytes behind 0x55, error 'None',
\* image_id byte 6, packet_id byte 7 x 256 + byte 8, width 16 x byte 9,
\* height 16 x byte 10, packet_type 'FEC' exactly for byte 1 = 0x66 and the
\* callsign of bytes 2..5, and for every other input a dict holding an error
\* and nothing else; and a step of the receive loop that reads an image
\* packet for which it returns an error logs the error and leaves the key,
\* the count, the buffer and the file as they are.
C26_PacketInfoFields ==
    /\ [](call.fn = "ssdv_packet_info" =>
            IF Len(call.input) = 256 /\ call.input[1] = 85
            THEN call.result =
                     [error |-> "None",
                      image_id |-> call.input[7],
                      packet_id |-> call.input[8] * 256 + call.input[9],
                      width |-> 16 * call.input[10],
                      height |-> 16 * call.input[11],
                      packet_type |-> IF call.input[2] = 102 THEN "FEC" ELSE "No-FEC",
                      callsign |-> ssdv_decode_callsign(SubSeq(call.input, 3, 6))]
            ELSE DOMAIN call.result = {"error"} /\ call.result.error # "None")
    /\ [][ (/\ stream' # stream
            /\ decode_packet_type(Last(stream')) = SSDV
            /\ ssdv_packet_info_dict(Last(stream')).error # "None") =>
               /\ events' = Append(events, Event("error", FALSE, <<>>, -1, <<>>, 0, NoMeta))
               /\ UNCHANGED <<current_image, current_callsign, current_packet_count,
                              rxtemp, temp_f, rx_pc>>
         ]_vars

C26_Witness ==
    /\ call.fn = "ssdv_packet_info"
    /\ call.result.error = "None"
    /\ call.result.packet_type = "No-FEC"
    /\ call.result.width = 4080
    /\ call.result.packet_id = 65535
    /\ call.result.image_id = 255
    /\ Len(stream) = 2
    /\ Len(stream[2]) = 257
    /\ current_packet_count = 1
    /\ rxtemp = stream[1]


(***************************************************************************)
(* tx/PacketTX.py: the telemetry packet generators, and the decoder of the *)
(* receiver run on the payload of the frame each of them queues.           *)
(***************************************************************************)
\* int(iTOW * 1000) of a Python float, given as the eight bytes of its
\* IEEE-754 double ('>d').  The 53-bit significand is multiplied by 1000
\* exactly in 16-bit limbs (least significant first), the product is rounded
\* to 53 bits, ties to even, as the float multiplication rounds it, and int()
\* drops the bits behind the binary point.  The value is two 16-bit halves,
\* or none where int() raises (infinity, NaN) or struct 'I' refuses the
\* number (negative, 2^32 or more).
iTOW_ms(seconds) ==
    LET E == (seconds[1] % 128) * 16 + seconds[2] \div 16
        negative == seconds[1] >= 128
        m == <<seconds[7] * 256 + seconds[8], seconds[5] * 256 + seconds[6],
               seconds[3] * 256 + seconds[4], (seconds[2] % 16) + 16>>
        c1 == m[1] * 1000
        c2 == m[2] * 1000 + c1 \div 65536
        c3 == m[3] * 1000 + c2 \div 65536
        c4 == m[4] * 1000 + c3 \div 65536
        p == <<c1 % 65536, c2 % 65536, c3 % 65536, c4, 0>>
        r == IF c4 >= 16384 THEN 10 ELSE 9
        Right(limbs, n) ==
            LET w == n \div 16
                B == 2 ^ (n % 16)
                at(i) == IF i + w <= Len(limbs) THEN limbs[i + w] ELSE 0
            IN  [i \in 1..4 |-> at(i) \div B + (at(i + 1) % B) * (65536 \div B)]
        q == Right(p, r)
        rest == p[1] % (2 ^ r)
        up == rest * 2 > 2 ^ r \/ (rest * 2 = 2 ^ r /\ q[1] % 2 = 1)
        s1 == q[1] + (IF up THEN 1 ELSE 0)
        s2 == q[2] + s1 \div 65536
        s3 == q[3] + s2 \div 65536
        s4 == q[4] + s3 \div 65536
        s == <<s1 % 65536, s2 % 65536, s3 % 65536, s4, 0>>
        drop == 1075 - E - r
        whole == IF drop >= 64 THEN <<0, 0, 0, 0>> ELSE Right(s, drop)
    IN  IF E = 2047 THEN [ok |-> FALSE]
        ELSE IF E = 0 THEN [ok |-> TRUE, value |-> <<0, 0>>]
        ELSE IF drop <= 0 \/ whole[3] # 0 \/ whole[4] # 0 THEN [ok |-> FALSE]
        ELSE IF negative /\ (whole[1] # 0 \/ whole[2] # 0) THEN [ok |-> FALSE]
        ELSE [ok |-> TRUE, value |-> <<whole[2], whole[1]>>]

\* struct 'H', most significant byte first.
PackH(n) == <<n \div 256, n % 256>>

\* str.encode(): UTF-8 of a text given as its code points (below 65536).
RECURSIVE encode(_)
encode(text) ==
    IF text = <<>> THEN <<>>
    ELSE LET c == Head(text)
         IN  (IF c < 128 THEN <<c>>
              ELSE IF c < 2048 THEN <<192 + (c \div 64), 128 + (c % 64)>>
              ELSE <<224 + (c \div 4096), 128 + ((c \div 64) % 64), 128 + (c % 64)>>)
             \o encode(Tail(text))

\* struct '7p': the count, at most 6, the leading bytes, and zeros.
Pack7p(b) ==
    LET n == IF Len(b) > 6 THEN 6 ELSE Len(b)
    IN  <<n>> \o SubSeq(b, 1, n) \o Rep(0, 6 - n)

\* queue_telemetry_packet(packet, repeats): the frames put on the queue.
Queued(pkt, repeats) ==
    [k \in 1..repeats |-> Bytes(frame_packet_of(default_payload_length, pkt, fec))]

\* transmit_text_message(message, repeats) of an instance whose counter is
\* text_message_count; message is the code points of the text.
transmit_text_message(message, repeats, text_message_count) ==
    LET count == (text_message_count + 1) % 65536
        clipped == IF Len(message) > 252 THEN SubSeq(message, 1, 252) ELSE message
    IN  IF \E k \in 1..Len(clipped) : clipped[k] >= 128
        THEN Raise("UnicodeEncodeError")
        ELSE Return([text_message_count |-> count,
                     queued |-> Queued(<<0, Len(clipped)>> \o PackH(count) \o clipped,
                                       repeats)])

\* struct.pack raises on an integer outside the range of its field, and
\* int() on an infinity or a NaN; the except clause prints the traceback
\* and nothing is queued.
Fits(gps_data) ==
    /\ iTOW_ms(gps_data.iTOW).ok
    /\ gps_data.week \in 0..65535
    /\ gps_data.leapS \in 0..255
    /\ gps_data.numSV \in 0..255
    /\ gps_data.gpsFix \in 0..255
    /\ gps_data.dynamic_model \in 0..255

\* week, int(iTOW * 1000), leapS as 'HIB'.
PackTime(week, iTOW, leapS) ==
    PackH(week) \o PackH(iTOW_ms(iTOW).value[1]) \o PackH(iTOW_ms(iTOW).value[2])
    \o <<leapS>>

\* The six floats and three bytes of the position, 'ffffffBBB'.  A float
\* field is a value a single holds, given as its four bytes.
PackPosition(gps_data) ==
    gps_data.latitude \o gps_data.longitude \o gps_data.altitude
    \o gps_data.ground_speed \o gps_data.heading \o gps_data.ascent_rate
    \o <<gps_data.numSV, gps_data.gpsFix, gps_data.dynamic_model>>

\* 'BBBBBBbfffffff'.
PackOrientation(orientation_data) ==
    <<orientation_data.sys_status, orientation_data.sys_error,
      orientation_data.sys_cal, orientation_data.gyro_cal,
      orientation_data.accel_cal, orientation_data.magnet_cal,
      orientation_data.temp % 256>>
    \o orientation_data.euler_heading \o orientation_data.euler_roll
    \o orientation_data.euler_pitch \o orientation_data.quaternion_x
    \o orientation_data.quaternion_y \o orientation_data.quaternion_z
    \o orientation_data.quaternion_w

\* transmit_gps_telemetry(gps_data, cam_metadata); host holds what the
\* method collects itself: radio and CPU temperature, CPU speed, load
\* averages, disk usage and the three camera figures.
transmit_gps_telemetry(gps_data, host) ==
    IF ~Fits(gps_data) \/ host.cpu_speed \notin 0..65535
    THEN Return([queued |-> <<>>])
    ELSE Return([queued |->
            Queued(<<1>> \o PackTime(gps_data.week, gps_data.iTOW, gps_data.leapS)
                   \o PackPosition(gps_data)
                   \o host.radio_temp \o host.cpu_temp \o PackH(host.cpu_speed)
                   \o host.load_avg_1 \o host.load_avg_5 \o host.load_avg_15
                   \o host.disk_percent \o host.lens_position
                   \o host.sensor_temperature \o host.focus_fom, 1)])

transmit_orientation_telemetry(week, iTOW, leapS, orientation_data) ==
    IF ~iTOW_ms(iTOW).ok \/ week \notin 0..65535 \/ leapS \notin 0..255
    THEN Return([queued |-> <<>>])
    ELSE Return([queued |->
            Queued(<<2>> \o PackTime(week, iTOW, leapS)
                   \o PackOrientation(orientation_data), 1)])

\* transmit_image_telemetry(gps_data, orientation_data, image_id, callsign,
\* repeats) of an instance whose counter is image_telem_count; the counter
\* is incremented before the try.
transmit_image_telemetry(gps_data, orientation_data, image_id, callsign_, repeats, image_telem_count) ==
    LET count == (image_telem_count + 1) % 65536
    IN  IF ~Fits(gps_data) \/ image_id \notin 0..255
        THEN Return([image_telem_count |-> count, queued |-> <<>>])
        ELSE Return([image_telem_count |-> count,
                     queued |->
                        Queued(<<84>> \o PackH(count) \o Pack7p(encode(callsign_))
                               \o <<image_id>>
                               \o PackTime(gps_data.week, gps_data.iTOW, gps_data.leapS)
                               \o PackPosition(gps_data)
                               \o PackOrientation(orientation_data), repeats)])

\* Times of week: milliseconds, and the float of that many thousandths of a
\* second ('>d'): 0.0, 0.5, 1.001, 200.0 and 604799.999.
TimesOfWeek ==
    {<<0, <<0, 0, 0, 0, 0, 0, 0, 0>>>>,
     <<500, <<63, 224, 0, 0, 0, 0, 0, 0>>>>,
     <<1001, <<63, 240, 4, 24, 147, 116, 188, 106>>>>,
     <<200000, <<64, 105, 0, 0, 0, 0, 0, 0>>>>,
     <<604799999, <<65, 34, 116, 255, 255, 124, 237, 145>>>>}

\* Those floats, 4294967.296 (2^32 ms) and a NaN.
Floats ==
    {t[2] : t \in TimesOfWeek}
    \cup {<<65, 80, 98, 77, 210, 241, 169, 252>>, <<127, 248, 0, 0, 0, 0, 0, 0>>}

GpsData ==
    [week : {0, 2290, 65535, 65536}, iTOW : Floats, leapS : {0, 18},
     latitude : {<<194, 11, 153, 154>>}, longitude : {<<67, 10, 153, 154>>},
     altitude : {<<70, 28, 64, 0>>}, ground_speed : {<<0, 0, 0, 0>>},
     heading : {<<67, 0, 0, 0>>}, ascent_rate : {<<192, 160, 0, 0>>},
     numSV : {0, 12}, gpsFix : {0, 3}, dynamic_model : {6}]

Hosts ==
    [radio_temp : {<<66, 32, 0, 0>>}, cpu_temp : {<<66, 72, 0, 0>>},
     cpu_speed : {1500, 21845},
     load_avg_1 : {<<63, 0, 0, 0>>}, load_avg_5 : {<<63, 0, 0, 0>>},
     load_avg_15 : {<<63, 0, 0, 0>>}, disk_percent : {<<66, 72, 0, 0>>},
     lens_position : {<<196, 121, 192, 0>>},
     sensor_temperature : {<<196, 121, 192, 0>>}, focus_fom : {<<196, 121, 192, 0>>}]

OrientationData ==
    {[sys_status |-> 5, sys_error |-> 0, sys_cal |-> cal[1], gyro_cal |-> cal[2],
      accel_cal |-> cal[3], magnet_cal |-> cal[4], temp |-> temp,
      euler_heading |-> <<67, 0, 0, 0>>, euler_roll |-> <<0, 0, 0, 0>>,
      euler_pitch |-> <<192, 160, 0, 0>>, quaternion_x |-> <<0, 0, 0, 0>>,
      quaternion_y |-> <<0, 0, 0, 0>>, quaternion_z |-> <<0, 0, 0, 0>>,
      quaternion_w |-> <<63, 128, 0, 0>>] :
        cal \in {<<0, 0, 0, 0>>, <<3, 0, 1, 2>>, <<3, 3, 3, 3>>},
        temp \in {-128, 25, 127}}

\* "", "HI", and texts of 252, 253 and 300 characters.
TextMessages ==
    {<<>>, <<72, 73>>} \cup {[k \in 1..n |-> 32 + (k % 90)] : n \in {252, 253, 300}}

\* 'N0CALL', '', 'A' and six times U+00D1.
TxCallsigns ==
    {<<78, 48, 67, 65, 76, 76>>, <<>>, <<65>>, <<209, 209, 209, 209, 209, 209>>}

\* The 256 bytes of payload of a frame.
PayloadOf(frame) == SubSeq(frame, 21, 20 + default_payload_length)

\* One generator called, and the matching decoder of the receiver run on
\* the payload of each frame it has queued.
RoundTrip(fn, input, outcome, decoder(_)) ==
    /\ call = NoCall
    /\ call' = [fn |-> fn, input |-> input, raised |-> outcome.raised,
                result |-> outcome.value,
                decoded |-> IF outcome.raised THEN <<>>
                            ELSE [k \in 1..Len(outcome.value.queued) |->
                                     decoder(PayloadOf(outcome.value.queued[k]))]]
    /\ UNCHANGED <<txvars, rxvars, threads, appvars>>

\* Mutant: the data are clipped to 256 bytes.
transmit_secondary_payload_packet_Clip256(id, data, repeats) ==
    IF \E k \in 1..Len(data) : data[k] \notin 0..255
    THEN Raise("ValueError")
    ELSE LET clipped == IF Len(data) > 256 THEN SubSeq(data, 1, 256) ELSE data
             pkt == <<3, id % 256>> \o clipped
         IN  Return([packet |-> pkt, queued |-> Queued(pkt, repeats)])

\* transmit_secondary_payload_packet(id, data, repeats): bytearray(data)
\* raises ValueError on an element outside 0..255, before anything is queued.
transmit_secondary_payload_packet(id, data, repeats) ==
    IF \E k \in 1..Len(data) : data[k] \notin 0..255
    THEN Raise("ValueError")
    ELSE LET clipped == IF Len(data) > 254 THEN SubSeq(data, 1, 254) ELSE data
             pkt == <<3, id % 256>> \o clipped
         IN  Return([packet |-> pkt, queued |-> Queued(pkt, repeats)])

\* Payload contents: none, one byte, around the limit of 254 bytes, and a
\* list with an element that is no byte.
SecondaryData == {<<>>, <<7>>, Pattern(253), Pattern(254), Pattern(255), Pattern(300), <<1, 256>>}

transmit_secondary_payload_packet_call(id, data, repeats) ==
    /\ call = NoCall
    /\ RoundTrip("transmit_secondary_payload_packet",
                 [id |-> id, data |-> data, repeats |-> repeats],
                 transmit_secondary_payload_packet(id, data, repeats),
                 sec_payload_decode)

transmit_text_message_call(message, repeats, text_message_count) ==
    /\ call = NoCall
    /\ RoundTrip("transmit_text_message",
                 [message |-> message, repeats |-> repeats,
                  text_message_count |-> text_message_count],
                 transmit_text_message(message, repeats, text_message_count),
                 decode_text_message)

transmit_gps_telemetry_call(gps_data, host) ==
    /\ call = NoCall
    /\ RoundTrip("transmit_gps_telemetry", [gps_data |-> gps_data, host |-> host],
                 transmit_gps_telemetry(gps_data, host), gps_telemetry_decoder)

transmit_orientation_telemetry_call(week, iTOW, leapS, orientation_data) ==
    /\ call = NoCall
    /\ RoundTrip("transmit_orientation_telemetry",
                 [gps_data |-> [week |-> week, iTOW |-> iTOW, leapS |-> leapS],
                  orientation_data |-> orientation_data],
                 transmit_orientation_telemetry(week, iTOW, leapS, orientation_data),
                 orientation_telemetry_decoder)

transmit_image_telemetry_call(gps_data, orientation_data, image_id, callsign_, repeats, image_telem_count) ==
    /\ call = NoCall
    /\ RoundTrip("transmit_image_telemetry",
                 [gps_data |-> gps_data, orientation_data |-> orientation_data,
                  image_id |-> image_id, callsign |-> callsign_, repeats |-> repeats,
                  image_telem_count |-> image_telem_count],
                 transmit_image_telemetry(gps_data, orientation_data, image_id, callsign_,
                                          repeats, image_telem_count),
                 image_telemetry_decoder)

RoundTripNext ==
    \/ \E message \in TextMessages, repeats \in {1, 2},
          text_message_count \in {0, 1, 65534, 65535} :
            transmit_text_message_call(message, repeats, text_message_count)
    \/ \E gps_data \in GpsData, host \in Hosts :
            transmit_gps_telemetry_call(gps_data, host)
    \/ \E week \in {0, 2290, 65535, 65536}, iTOW \in Floats, leapS \in {0, 18, 255},
          orientation_data \in OrientationData :
            transmit_orientation_telemetry_call(week, iTOW, leapS, orientation_data)
    \/ \E gps_data \in {g \in GpsData : g.numSV = 12 /\ g.gpsFix = 3},
          orientation_data \in {o \in OrientationData : o.temp = 25 /\ o.sys_cal = 3},
          image_id \in {0, 255}, callsign_ \in TxCallsigns,
          image_telem_count \in {0, 65535} :
            transmit_image_telemetry_call(gps_data, orientation_data, image_id,
                                          callsign_, 1, image_telem_count)
    \/ \E id \in {-1, 0, 1, 255, 256, 515}, data \in SecondaryData, repeats \in 0..3 :
            transmit_secondary_payload_packet_call(id, data, repeats)

SpecRoundTrip == Init /\ [][RoundTripNext]_vars


\* The decoded time of week is the sender's, for the times of TimesOfWeek.
SameTime(gps_data, decoded) ==
    /\ decoded.week = gps_data.week
    /\ decoded.leapS = gps_data.leapS
    /\ \A t \in TimesOfWeek :
          gps_data.iTOW = t[2] => decoded.iTOW = <<t[1] \div 65536, t[1] % 65536>>

SameFix(gps_data, decoded) ==
    /\ decoded.numSV = gps_data.numSV
    /\ decoded.gpsFix = gps_data.gpsFix
    /\ decoded.dynamic_model = gps_data.dynamic_model

SameCalibration(orientation_data, decoded) ==
    /\ decoded.sys_cal = orientation_data.sys_cal
    /\ decoded.gyro_cal = orientation_data.gyro_cal
    /\ decoded.accel_cal = orientation_data.accel_cal
    /\ decoded.magnet_cal = orientation_data.magnet_cal

\* C27: for every frame queued by transmit_text_message, transmit_gps_telemetry,
\* transmit_orientation_telemetry or transmit_image_telemetry (callsign of at
\* most 6 characters), the matching decoder run on the 256 bytes of payload
\* returns error 'None', the text clipped to 252 characters and the sender's
\* counter as id, and week, iTOW in ms, leapS, numSV, gpsFix, dynamic_model,
\* calibration bytes, image id, sequence number and callsign of the sender.
C27_TxRxRoundTrip ==
    (call.fn \in {"transmit_text_message", "transmit_gps_telemetry",
                  "transmit_orientation_telemetry", "transmit_image_telemetry"}
     /\ ~call.raised) =>
        \A k \in 1..Len(call.decoded) :
            LET decoded == call.decoded[k]
                input == call.input
            IN  /\ decoded.error = "None"
                /\ call.fn = "transmit_text_message" =>
                      /\ decoded.text = SubSeq(input.message, 1, Min(Len(input.message), 252))
                      /\ decoded.id = call.result.text_message_count
                      /\ decoded.id = (input.text_message_count + 1) % 65536
                /\ call.fn = "transmit_gps_telemetry" =>
                      SameTime(input.gps_data, decoded) /\ SameFix(input.gps_data, decoded)
                /\ call.fn = "transmit_orientation_telemetry" =>
                      /\ SameTime(input.gps_data, decoded)
                      /\ SameCalibration(input.orientation_data, decoded)
                /\ call.fn = "transmit_image_telemetry" =>
                      /\ SameTime(input.gps_data, decoded)
                      /\ SameFix(input.gps_data, decoded)
                      /\ SameCalibration(input.orientation_data, decoded)
                      /\ decoded.image_id = input.image_id
                      /\ decoded.sequence_number = call.result.image_telem_count
                      /\ Len(input.callsign) <= 6 => decoded.callsign = encode(input.callsign)


(***************************************************************************)
(* The checksum of a frame, computed again over the payload as framed and  *)
(* over the payload with one bit changed.                                  *)
(***************************************************************************)
\* Payloads of 256 bytes: zeros, a pattern, and the text message "HI" as
\* padded by frame_packet.
CrcPayloads ==
    {Rep(0, 256), Pattern(256), <<TEXT_MESSAGE, 2, 0, 7, 72, 73>> \o Rep(85, 250)}

\* data with bit number bit changed, bit 0 the least significant of byte 0.
FlipBit(data, bit) ==
    [data EXCEPT ![bit \div 8 + 1] = Xor8(@, 2 ^ (bit % 8))]

\* frame_packet of each of them; the checksum is the same with and without
\* FEC.
CrcFrames ==
    {Bytes(frame_packet_of(default_payload_length, pkt, FALSE)) : pkt \in CrcPayloads}

\* self.crc16 over the payload of a frame.
crc16_payload_call(frame) ==
    /\ call = NoCall
    /\ call' = [fn |-> "crc16", input |-> PayloadOf(frame), bit |-> -1,
                carried |-> frame[277] + 256 * frame[278],
                result |-> crc16(PayloadOf(frame))]
    /\ UNCHANGED <<txvars, rxvars, threads, appvars>>

\* self.crc16 over that payload with one bit changed.
crc16_flipped_call(frame, bit) ==
    /\ call = NoCall
    /\ call' = [fn |-> "crc16", input |-> PayloadOf(frame), bit |-> bit,
                carried |-> frame[277] + 256 * frame[278],
                result |-> crc16(Bytes(FlipBit(PayloadOf(frame), bit)))]
    /\ UNCHANGED <<txvars, rxvars, threads, appvars>>

CrcNext ==
    \/ \E frame \in CrcFrames : crc16_payload_call(frame)
    \/ \E frame \in CrcFrames, bit \in 0..(8 * default_payload_length - 1) :
          crc16_flipped_call(frame, bit)

SpecCrc == Init /\ [][CrcNext]_vars

\* C28: the CRC computed over the payload of a frame as framed is the
\* checksum the frame carries behind the payload (low byte first), and the
\* CRC computed over the payload with any one of its 2048 bits changed is a
\* different number.
C28_SingleBitFlipsDetected ==
    call.fn = "crc16" =>
        /\ call.result \in 0..65535
        /\ call.bit = -1 => call.result = call.carried
        /\ call.bit >= 0 => call.result # call.carried

\* The last bit of the last byte of a padded text message is changed.
C28_Witness ==
    /\ call.fn = "crc16"
    /\ call.bit = 2047
    /\ call.input[1] = TEXT_MESSAGE
    /\ call.result # call.carried


\* C29: the metadata of every "new image" update sent to the GUI names the
\* image that was decoded: its callsign and image id are those of the
\* accumulator that was flushed, whose file name the update carries.
C29_NewImageMetadataOfFlushed ==
    \A i \in 1..Len(events) :
        (events[i].type = "gui" /\ events[i].final) =>
            /\ events[i].meta.callsign = events[i].callsign
            /\ events[i].meta.image_id = events[i].image


(***************************************************************************)
(* The scheduler with one telemetry put() observed: the call record keeps  *)
(* which put it was, what was queued ahead of its frame and how many       *)
(* frames had been handed to the radio when it completed.                  *)
(***************************************************************************)
\* self.telemetry_queue.put(...) as in telemetry_put, observed.
telemetry_put_observed(t) ==
    /\ call = NoCall
    /\ prod[t].pc = "put_telemetry"
    /\ ~Queue_full(telemetry_queue, TelemetryQueueMax)
    /\ telemetry_queue' = Queue_put(telemetry_queue, prod[t].frame)
    /\ enq_log' = [enq_log EXCEPT !.telemetry = Append(@, Entry(t, prod[t].frame))]
    /\ prod' = [prod EXCEPT ![t] =
                  IF prod[t].left > 1 THEN [@ EXCEPT !.left = @ - 1]
                  ELSE Between(prod[t].n)]
    /\ call' = [fn |-> "telemetry_queue.put", k |-> Len(enq_log.telemetry) + 1,
                ahead |-> telemetry_queue, sent |-> Len(radio_tx)]
    /\ UNCHANGED <<threads, appvars, rxvars, fec, ssdv_queue, transmit_active, idle_message, tx_pc,
                   packet, seen, calls, radio_tx, radio_shutdowns>>

SpecTXLatency ==
    Init /\ [][TxNext \/ \E t \in Producers : telemetry_put_observed(t)]_vars

\* The frames handed to the radio between the completion of the observed
\* put() and the handing over of its frame (the k-th telemetry frame handed
\* over, the queue being first in, first out), or until now if it is still
\* queued.
SinceEnqueued ==
    LET Telemetry(n) == Len(FromSrc(SubSeq(radio_tx, 1, n), "telemetry"))
        until == IF Telemetry(Len(radio_tx)) < call.k THEN Len(radio_tx)
                 ELSE (CHOOSE n \in 1..Len(radio_tx) :
                          radio_tx[n].src = "telemetry" /\ Telemetry(n) = call.k) - 1
    IN  SubSeq(radio_tx, call.sent + 1, until)

C31_SecondaryPayloadRoundTrip ==
    call.fn = "transmit_secondary_payload_packet" =>
        LET data == call.input.data
            n == Min(Len(data), 254)
        IN  /\ call.raised <=> \E k \in 1..Len(data) : data[k] \notin 0..255
            /\ ~call.raised =>
                  /\ Len(call.result.packet) <= 256
                  /\ Len(call.result.queued) = call.input.repeats
                  /\ \A k \in 1..Len(call.result.queued) :
                        /\ call.result.queued[k] = call.result.queued[1]
                        /\ Len(call.result.queued[k]) = 20 + 256 + 2
                        /\ call.decoded[k].id = call.input.id % 256
                        /\ call.decoded[k].id \in 0..255
                        /\ SubSeq(call.decoded[k].payload, 1, n) = SubSeq(data, 1, n)

\* C31 witness: 300 bytes sent three times under id 515, decoded as id 3
\* with 254 bytes of payload.
C31_Witness ==
    /\ call.fn = "transmit_secondary_payload_packet"
    /\ ~call.raised
    /\ Len(call.input.data) = 300
    /\ call.input.id = 515
    /\ Len(call.result.queued) = 3
    /\ call.decoded[3].id = 3
    /\ Len(call.decoded[3].payload) = 254
    /\ call.decoded[3].payload = SubSeq(call.input.data, 1, 254)

(***************************************************************************)
(* WenetPiCamera2.auto_capture: the capture thread started by run(), and   *)
(* the scheduler of PacketTX that empties the image queue it fills.  The   *)
(* SSDV file of an image is a number of 256-byte chunks that carry the     *)
(* image id given to the converter; capture and conversion may fail.       *)
(***************************************************************************)
\* Images converted by the capture thread.
MaxImages == 2
\* Chunks in the SSDV file of an image.
MaxChunks == 2
\* ssdv_queue = Queue(4096): a file of MaxChunks chunks never fills it.
ssdv_queue_maxsize == 4096

\* The k-th chunk of the file "ssdv -i image_id" writes.
SsdvFile(image_id, n) == [k \in 1..n |-> ImagePayload(image_id % 256, k)]
ImageIdOf(frame) == FramePayload(frame)[7]
PacketIdOf(frame) == FramePayload(frame)[9]

\* run(..., start_id): sets the flag and starts the thread, whose first
\* statement is image_id = start_id.
run(start_id) ==
    /\ camera.pc = "not_started"
    /\ camera' = [camera EXCEPT !.auto_capture_running = TRUE, !.pc = "while",
                                !.start_id = start_id, !.image_id = start_id]
    /\ UNCHANGED <<server, txvars, rxvars, call, threads, tx_text_message_count, texters, script>>

\* stop(): self.auto_capture_running = False.  Whether the thread was then
\* waiting for the image queue to empty (it had slept, or was asleep, in the
\* wait loop, and the queue was not empty) is kept as history.
stop ==
    /\ camera.auto_capture_running
    /\ camera' = [camera EXCEPT !.auto_capture_running = FALSE,
                                !.stopped =
                                    IF /\ ssdv_queue # <<>>
                                       /\ \/ camera.pc = "sleep"
                                          \/ camera.pc = "wait" /\ camera.slept
                                    THEN "waiting" ELSE "elsewhere"]
    /\ UNCHANGED <<server, txvars, rxvars, call, threads, tx_text_message_count, texters, script>>

\* while self.auto_capture_running:
auto_capture_while ==
    /\ camera.pc = "while"
    /\ camera' = [camera EXCEPT !.pc = IF camera.auto_capture_running THEN "capture"
                                       ELSE "returned"]
    /\ UNCHANGED <<server, txvars, rxvars, call, threads, tx_text_message_count, texters, script>>

\* capture_successful = self.capture(...); if not: reset the camera, continue
auto_capture_capture(capture_successful) ==
    /\ camera.pc = "capture"
    /\ camera.images < MaxImages
    /\ camera' = [camera EXCEPT !.pc = IF capture_successful THEN "ssdvify" ELSE "while"]
    /\ UNCHANGED <<server, txvars, rxvars, call, threads, tx_text_message_count, texters, script>>

\* ssdv_filename = self.ssdvify(capture_filename, image_id=image_id);
\* "FAIL" (chunks = 0 here): continue
auto_capture_ssdvify(chunks) ==
    /\ camera.pc = "ssdvify"
    /\ camera' = IF chunks = 0 THEN [camera EXCEPT !.pc = "while"]
                 ELSE [camera EXCEPT !.pc = "wait", !.images = @ + 1, !.slept = FALSE,
                                     !.file = SsdvFile(camera.image_id, chunks)]
    /\ UNCHANGED <<server, txvars, rxvars, call, threads, tx_text_message_count, texters, script>>

\* Mutant: the image is pushed without waiting for the queue to empty.
auto_capture_wait_NoWait ==
    /\ camera.pc = "wait"
    /\ camera' = [camera EXCEPT !.pc = "push"]
    /\ UNCHANGED <<server, txvars, rxvars, call, threads, tx_text_message_count, texters, script>>

\* while tx.image_queue_empty() == False:
auto_capture_wait ==
    /\ camera.pc = "wait"
    /\ camera' = [camera EXCEPT !.pc = IF Queue_qsize(ssdv_queue) = 0 THEN "push"
                                       ELSE "sleep"]
    /\ UNCHANGED <<server, txvars, rxvars, call, threads, tx_text_message_count, texters, script>>

\* sleep(0.05); if self.auto_capture_running == False: return
auto_capture_sleep ==
    /\ camera.pc = "sleep"
    /\ camera' = [camera EXCEPT !.slept = TRUE,
                                !.pc = IF camera.auto_capture_running THEN "wait"
                                       ELSE "returned"]
    /\ UNCHANGED <<server, txvars, rxvars, call, threads, tx_text_message_count, texters, script>>

\* Mutant: the image id is left as it is after an image has been pushed.
auto_capture_push_SameId ==
    /\ camera.pc = "push"
    /\ ~Queue_full(ssdv_queue, ssdv_queue_maxsize)
    /\ ssdv_queue' = Queue_put(ssdv_queue, Bytes(frame_packet(Head(camera.file), fec)))
    /\ camera' = IF Len(camera.file) > 1 THEN [camera EXCEPT !.file = Tail(@)]
                 ELSE [camera EXCEPT !.file = <<>>, !.pc = "while",
                                     !.pushed = Append(@, camera.image_id % 256)]
    /\ UNCHANGED <<server, rxvars, call, threads, tx_text_message_count, texters, script, fec,
                   telemetry_queue, transmit_active, idle_message, tx_pc, packet, seen,
                   prod, calls, enq_log, radio_tx, radio_shutdowns>>

\* tx.queue_image_file(ssdv_filename), one put() per step, and behind the
\* last one image_id = (image_id + 1) % 256.
auto_capture_push ==
    /\ camera.pc = "push"
    /\ ~Queue_full(ssdv_queue, ssdv_queue_maxsize)
    /\ ssdv_queue' = Queue_put(ssdv_queue, Bytes(frame_packet(Head(camera.file), fec)))
    /\ camera' = IF Len(camera.file) > 1 THEN [camera EXCEPT !.file = Tail(@)]
                 ELSE [camera EXCEPT !.file = <<>>, !.pc = "while",
                                     !.image_id = (camera.image_id + 1) % 256,
                                     !.pushed = Append(@, camera.image_id % 256)]
    /\ UNCHANGED <<server, rxvars, call, threads, tx_text_message_count, texters, script, fec,
                   telemetry_queue, transmit_active, idle_message, tx_pc, packet, seen,
                   prod, calls, enq_log, radio_tx, radio_shutdowns>>

CaptureNext ==
    \/ start_tx
    \/ TxLoop
    \/ TxCheckTelemetry
    \/ TxCheckSsdv
    \/ TxSendSsdv
    \/ TxSendIdle
    \/ \E start_id \in {0, 255, 511} : run(start_id)
    \/ stop
    \/ auto_capture_while
    \/ \E capture_successful \in BOOLEAN : auto_capture_capture(capture_successful)
    \/ \E chunks \in 0..MaxChunks : auto_capture_ssdvify(chunks)
    \/ auto_capture_wait
    \/ auto_capture_sleep
    \/ auto_capture_push

SpecCapture == Init /\ [][CaptureNext]_vars

OneImageQueued ==
    \A i, j \in 1..Len(ssdv_queue) : ImageIdOf(ssdv_queue[i]) = ImageIdOf(ssdv_queue[j])

\* C32 as stated: the image queue holds chunks of at most one image, and
\* an image the thread was waiting to push when stop() was called is not
\* pushed.
C32_StopWhileWaitingNeverPushes ==
    /\ OneImageQueued
    /\ camera.stopped = "waiting" => camera.pc # "push"

\* C32, amended: the image queue holds chunks of at most one image, the one
\* being pushed if one is; the pushing of an image begins only at a test
\* that finds the queue empty, stop() called or not; a thread that wakes up
\* in the wait loop with stop() called returns, and the image it held is
\* never pushed.
C32_PushOnlyIntoEmptyQueue ==
    /\ [](/\ OneImageQueued
          /\ camera.pc = "push" =>
                \A i \in 1..Len(ssdv_queue) :
                    ImageIdOf(ssdv_queue[i]) = camera.image_id % 256
          /\ Len(camera.pushed) = camera.images - (IF camera.file # <<>> THEN 1 ELSE 0)
          /\ camera.pc = "returned" => ~camera.auto_capture_running)
    /\ [][ /\ (camera'.pc = "push" /\ camera.pc # "push") =>
                 (camera.pc = "wait" /\ ssdv_queue = <<>>)
           /\ (camera.pc = "sleep" /\ ~camera.auto_capture_running /\ camera' # camera) =>
                 (camera'.pc = "returned" /\ camera'.file = camera.file
                  /\ ssdv_queue' = ssdv_queue)
           /\ camera.pc = "returned" => camera' = camera
         ]_vars

\* C32 witness: stop() came while the thread waited with the second image
\* for the queue to empty; the thread has returned, the image is not pushed
\* and the queue still holds a chunk of the first.
C32_Witness ==
    /\ camera.stopped = "waiting"
    /\ camera.pc = "returned"
    /\ camera.file # <<>>
    /\ Len(camera.pushed) = 1
    /\ ssdv_queue # <<>>
    /\ ImageIdOf(ssdv_queue[1]) = camera.pushed[1]

\* The image frames handed to the radio, in order.
ImagesSent == FromSrc(radio_tx, "ssdv")

queue_image_file(file) ==
    LET file_size == Len(file.data)
        chunks == file_size \div 256
        Chunk256(x) == SubSeq(file.data, 256 * (x - 1) + 1, 256 * x)
        \* the chunks read and put before an exception is raised, if one is
        done == IF file.fault = "open" THEN 0
                ELSE IF file.fault = "read" /\ file.at <= chunks THEN file.at - 1
                ELSE chunks
        queued == [x \in 1..done |->
                      Bytes(frame_packet_of(default_payload_length, Chunk256(x), fec))]
    IN  IF file.fault = "missing"
        THEN [raised |-> TRUE, value |-> [exception |-> "OSError"], queued |-> <<>>]
        ELSE [raised |-> FALSE, queued |-> queued,
              value |-> ~(file.fault = "open" \/ (file.fault = "read" /\ file.at <= chunks))]

\* Files of 0 to 1000 bytes, of three contents each, with and without a
\* fault.
ImageFiles ==
    {[data |-> [i \in 1..size |-> (i * 37 + seed) % 256], fault |-> fault[1], at |-> fault[2]] :
        size \in {0, 1, 255, 256, 257, 511, 512, 768, 1000},
        seed \in {0, 1, 2},
        fault \in {<<"none", 0>>, <<"missing", 0>>, <<"open", 0>>,
                   <<"read", 1>>, <<"read", 2>>, <<"read", 3>>}}

queue_image_file_call(file) ==
    /\ call = NoCall
    /\ call' = [fn |-> "queue_image_file", input |-> file,
                raised |-> queue_image_file(file).raised,
                result |-> queue_image_file(file).value,
                queued |-> queue_image_file(file).queued]
    /\ UNCHANGED <<txvars, rxvars, threads, appvars>>

ImageFileNext == \E file \in ImageFiles : queue_image_file_call(file)

SpecImageFile == Init /\ [][ImageFileNext]_vars

\* C34: queue_image_file does not raise; on a file that can be read it queues
\* floor(size / 256) frames that carry the file's 256-byte blocks in order
\* and returns True; on a file that cannot be read (missing, open() or
\* read() failing) it returns False and has queued nothing.
C34_QueueImageFile ==
    call.fn = "queue_image_file" =>
        /\ ~call.raised
        /\ IF call.input.fault = "none"
           THEN /\ call.result = TRUE
                /\ Len(call.queued) = Len(call.input.data) \div 256
                /\ \A x \in 1..Len(call.queued) :
                      PayloadOf(call.queued[x])
                          = SubSeq(call.input.data, 256 * (x - 1) + 1, 256 * x)
           ELSE call.result = FALSE /\ call.queued = <<>>

\* C35: no scheduler thread has had queue.Empty raised by the get_nowait()
\* that follows a qsize() > 0, whatever start_tx, close and enqueue calls
\* are made.
C35_DequeueNeverFails ==
    \A i \in 1..Len(threads) : threads[i].pc # "raised"

(***************************************************************************)
(* transmit_text_message called from several threads (the GPS thread, the  *)
(* capture thread, the UDP listener, the main thread).  The statement      *)
(*   self.text_message_count = (self.text_message_count+1)%65536           *)
(* reads the attribute and stores it in two steps, and the packet is built *)
(* from a third access; Python may switch threads between them.            *)
(***************************************************************************)
\* self.text_message_count ... +1: the attribute is read.
transmit_text_message_load(t) ==
    /\ texters.pc[t] = "idle"
    /\ calls < MaxCalls
    /\ calls' = calls + 1
    /\ texters' = [texters EXCEPT !.pc[t] = "store", !.count[t] = tx_text_message_count]
    /\ UNCHANGED <<server, rxvars, call, threads, camera, tx_text_message_count, script, fec,
                   ssdv_queue, telemetry_queue, transmit_active, idle_message, tx_pc, packet,
                   seen, prod, enq_log, radio_tx, radio_shutdowns>>

\* self.text_message_count = (...)%65536: the attribute is stored.
transmit_text_message_store(t) ==
    /\ texters.pc[t] = "store"
    /\ tx_text_message_count' = (texters.count[t] + 1) % 65536
    /\ texters' = [texters EXCEPT !.pc[t] = "pack"]
    /\ UNCHANGED <<server, rxvars, call, threads, camera, script, txvars>>

\* packet = b"\x00" + struct.pack(">BH", len(message), self.text_message_count)
\*          + message.encode('ascii'); the packet is framed.
transmit_text_message_pack(t) ==
    /\ texters.pc[t] = "pack"
    /\ texters' = [texters EXCEPT
          !.pc[t] = "put",
          !.frame[t] = Bytes(frame_packet(<<0, 1>> \o PackH(tx_text_message_count)
                                          \o <<64 + t>>, fec)),
          !.packed = Append(@, [by |-> t, id |-> tx_text_message_count])]
    /\ UNCHANGED <<server, rxvars, call, threads, camera, tx_text_message_count, script, txvars>>

\* self.telemetry_queue.put(...), repeats = 1
transmit_text_message_put(t) ==
    /\ texters.pc[t] = "put"
    /\ ~Queue_full(telemetry_queue, TelemetryQueueMax)
    /\ telemetry_queue' = Queue_put(telemetry_queue, texters.frame[t])
    /\ texters' = [texters EXCEPT !.pc[t] = "idle", !.frame[t] = <<>>]
    /\ UNCHANGED <<server, rxvars, call, threads, camera, tx_text_message_count, script, fec,
                   ssdv_queue, transmit_active, idle_message, tx_pc, packet, seen, prod,
                   calls, enq_log, radio_tx, radio_shutdowns>>

TextsNext ==
    \/ start_tx
    \/ TxLoop
    \/ TxCheckTelemetry
    \/ TxSendTelemetry
    \/ TxCheckSsdv
    \/ TxSendIdle
    \/ \E t \in Producers : transmit_text_message_load(t)
    \/ \E t \in Producers : transmit_text_message_store(t)
    \/ \E t \in Producers : transmit_text_message_pack(t)
    \/ \E t \in Producers : transmit_text_message_put(t)

SpecTexts == Init /\ [][TextsNext]_vars

\* C36: the k-th text packet built carries the message id k modulo 65536,
\* so the ids of successive messages are consecutive and no two messages
\* carry the same id, also when the calls come from different threads.
C36_TextIdsConsecutive ==
    /\ \A k \in 1..Len(texters.packed) : texters.packed[k].id = k % 65536
    /\ \A j, k \in 1..Len(texters.packed) :
          j # k => texters.packed[j].id # texters.packed[k].id

main_start_tx ==
    /\ script.pc = "not_started"
    /\ tx_pc = "not_started"
    /\ transmit_active' = TRUE
    /\ tx_pc' = "loop"
    /\ script' = [script EXCEPT !.pc = "for_img"]
    /\ UNCHANGED <<server, rxvars, call, threads, camera, tx_text_message_count, texters, fec,
                   ssdv_queue, telemetry_queue, idle_message, packet, seen, prod, calls,
                   enq_log, radio_tx, radio_shutdowns>>

\* for img in image_numbers: transmit_file(filename, tx), up to its loop over
\* the chunks: a file whose size is not a multiple of 256 is skipped.
transmit_file(file_size) ==
    /\ script.pc = "for_img"
    /\ script.img < MaxImages
    /\ script' = IF file_size % 256 > 0
                 THEN [script EXCEPT !.img = @ + 1]
                 ELSE [pc |-> IF file_size \div 256 > 0 THEN "tx_packet" ELSE "wait",
                       img |-> script.img + 1, chunks |-> file_size \div 256, x |-> 0]
    /\ UNCHANGED <<server, rxvars, call, threads, camera, tx_text_message_count, texters, txvars>>

\* data = f.read(256); tx_object.tx_packet(data): the frame is put into the
\* image queue once there is room.
tx_packet ==
    /\ script.pc = "tx_packet"
    /\ ~Queue_full(ssdv_queue, SsdvQueueMax)
    /\ ssdv_queue' = Queue_put(ssdv_queue,
                         Bytes(frame_packet(ImagePayload(script.img, script.x + 1), fec)))
    /\ enq_log' = [enq_log EXCEPT !.ssdv =
                      Append(@, [by |-> script.img, n |-> script.x + 1,
                                 frame |-> ssdv_queue'[Len(ssdv_queue')]])]
    /\ script' = [script EXCEPT !.x = @ + 1,
                                !.pc = IF script.x + 1 = script.chunks THEN "wait" ELSE @]
    /\ UNCHANGED <<server, rxvars, call, threads, camera, tx_text_message_count, texters, fec,
                   telemetry_queue, transmit_active, idle_message, tx_pc, packet, seen,
                   prod, calls, radio_tx, radio_shutdowns>>

\* Mutant: wait() returns at once.
wait_NoWait ==
    /\ script.pc = "wait"
    /\ script' = [script EXCEPT !.pc = "for_img"]
    /\ UNCHANGED <<server, rxvars, call, threads, camera, tx_text_message_count, texters, txvars>>

\* tx_object.wait(): while (not self.ssdv_queue.empty()) and
\* self.transmit_active: sleep(0.01); the step is the return of the call.
wait ==
    /\ script.pc = "wait"
    /\ ~(ssdv_queue # <<>> /\ transmit_active)
    /\ script' = [script EXCEPT !.pc = "for_img"]
    /\ UNCHANGED <<server, rxvars, call, threads, camera, tx_text_message_count, texters, txvars>>

\* tx.close(), after the last image.
main_close ==
    /\ script.pc = "for_img"
    /\ script.img = MaxImages
    /\ transmit_active' = FALSE
    /\ script' = [script EXCEPT !.pc = "closed"]
    /\ UNCHANGED <<server, rxvars, call, threads, camera, tx_text_message_count, texters, fec,
                   ssdv_queue, telemetry_queue, idle_message, tx_pc, packet, seen, prod,
                   calls, enq_log, radio_tx, radio_shutdowns>>

\* packet = self.ssdv_queue.get_nowait()
TxGetSsdv ==
    /\ tx_pc = "get_ssdv"
    /\ IF Queue_qsize(ssdv_queue) = 0
       THEN /\ tx_pc' = "raised"
            /\ UNCHANGED <<ssdv_queue, packet>>
       ELSE /\ packet' = <<Queue_get_nowait(ssdv_queue).item>>
            /\ ssdv_queue' = Queue_get_nowait(ssdv_queue).rest
            /\ tx_pc' = "transmit_packet"
    /\ UNCHANGED <<extvars, rxvars, fec, telemetry_queue, transmit_active, idle_message,
                   seen, prod, calls, enq_log, radio_tx, radio_shutdowns>>

\* self.radio.transmit_packet(packet)
TxTransmitSsdv ==
    /\ tx_pc = "transmit_packet"
    /\ radio_tx' = Append(radio_tx, Handed("ssdv", packet[1]))
    /\ tx_pc' = "loop"
    /\ UNCHANGED <<extvars, rxvars, fec, ssdv_queue, telemetry_queue, transmit_active,
                   idle_message, packet, seen, prod, calls, enq_log, radio_shutdowns>>

\* File sizes in bytes: whole chunks, and one size that is not.
FileSizes == {256 * c : c \in 0..MaxChunks} \cup {300}

ScriptNext ==
    \/ main_start_tx
    \/ \E file_size \in FileSizes : transmit_file(file_size)
    \/ tx_packet
    \/ wait
    \/ main_close
    \/ TxLoop
    \/ TxCheckTelemetry
    \/ TxCheckSsdv
    \/ TxGetSsdv
    \/ TxTransmitSsdv
    \/ TxSendIdle
    \/ TxShutdown

SpecScript == Init /\ [][ScriptNext]_vars

\* C38: when the scheduler thread has called radio.shutdown(), every frame
\* the test script enqueued with tx_packet has been handed to
\* radio.transmit_packet, in the order of the puts; and wait() returns only
\* with the image queue empty or the transmitter closed.
C38_AllFramesSentBeforeShutdown ==
    /\ [](radio_shutdowns > 0 =>
             /\ ssdv_queue = <<>>
             /\ Frames(FromSrc(radio_tx, "ssdv")) = Frames(enq_log.ssdv))
    /\ [][(script.pc = "wait" /\ script'.pc # "wait")
              => (ssdv_queue = <<>> \/ ~transmit_active)]_vars

\* The script has sent two images of three frames in all and closed the
\* transmitter, and the scheduler thread has shut the radio down.
C38_Witness ==
    /\ radio_shutdowns = 1
    /\ script.pc = "closed"
    /\ script.img = MaxImages
    /\ Len(enq_log.ssdv) >= 3
    /\ Len(FromSrc(radio_tx, "ssdv")) >= 3


(***************************************************************************)
(* tx/PacketTX.py: the UDP listener's handler.  A datagram is what         *)
(* json.loads(packet.decode()) makes of it: nothing (the call raises), or  *)
(* an object with some of the fields type, packet, id and repeats.  A      *)
(* field value is a string (its code points), a list of integers or an     *)
(* integer (a one-element sequence).                                       *)
(***************************************************************************)
JsonStr(codes) == [t |-> "str", v |-> codes]
JsonList(items) == [t |-> "list", v |-> items]
JsonInt(n) == [t |-> "int", v |-> <<n>>]

\* int(x) on an integer, on a string of decimal digits, and on what it
\* rejects: another string (ValueError) or a list (TypeError).
json_int(x) ==
    IF x.t = "int" THEN Return(x.v[1])
    ELSE IF x.t = "list" THEN Raise("TypeError")
    ELSE IF x.v # <<>> /\ \A k \in 1..Len(x.v) : x.v[k] \in 48..57
    THEN Return(int([k \in 1..Len(x.v) |-> x.v[k] - 48]))
    ELSE Raise("ValueError")

\* What handle_udp_packet leaves behind: it has returned or raised, the
\* frames it has put into the telemetry queue, and the text counter.
Handled(raised, queued, text_message_count) ==
    [raised |-> raised, queued |-> queued, text_message_count |-> text_message_count]

\* handle_udp_packet(packet) of an instance whose counter is
\* text_message_count.  Every exception of the body is an Exception and is
\* caught at line 529.  transmit_text_message has incremented the counter
\* (line 240) when len(message) or message.encode('ascii') raises (lines
\* 242-245); bytearray(data) makes n zero bytes of an integer n and raises
\* on a string.
handle_udp_packet(datagram, text_message_count) ==
    LET has(field) == field \in datagram.has
        incremented == (text_message_count + 1) % 65536
        caught == Handled(FALSE, <<>>, text_message_count)
        text == transmit_text_message(datagram.packet.v, 1, text_message_count)
        data == IF datagram.packet.t = "int"
                THEN [k \in 1..datagram.packet.v[1] |-> 0]
                ELSE datagram.packet.v
        repeats == IF has("repeats") THEN json_int(datagram.repeats) ELSE Return(1)
        sec == transmit_secondary_payload_packet(json_int(datagram.id).value, data,
                                                 repeats.value)
    IN  IF ~datagram.json \/ ~has("type") THEN caught
        ELSE IF datagram.type = "WENET_TX_TEXT"
        THEN IF ~has("packet") THEN caught
             ELSE IF datagram.packet.t # "str" \/ text.raised
             THEN Handled(FALSE, <<>>, incremented)
             ELSE Handled(FALSE, text.value.queued, text.value.text_message_count)
        ELSE IF datagram.type = "WENET_TX_SEC_PAYLOAD"
        THEN IF ~has("id") \/ json_int(datagram.id).raised \/ repeats.raised
                \/ ~has("packet") \/ datagram.packet.t = "str"
                \/ (datagram.packet.t = "int" /\ datagram.packet.v[1] < 0)
             THEN caught
             ELSE IF sec.raised THEN caught
             ELSE Handled(FALSE, sec.value.queued, text_message_count)
        ELSE caught

\* Datagrams: not JSON, and objects with any of the four fields; texts "HI"
\* and U+00E9, lists [7] and [1, 256], the numbers 3, 1, 300, 0 and 2, and
\* the strings "x" and "2".
Datagrams ==
    [json : BOOLEAN,
     has : SUBSET {"type", "packet", "id", "repeats"},
     type : {"WENET_TX_TEXT", "WENET_TX_SEC_PAYLOAD", "WENET_OTHER"},
     packet : {JsonStr(<<72, 73>>), JsonStr(<<233>>), JsonList(<<7>>),
               JsonList(<<1, 256>>), JsonInt(3)},
     id : {JsonInt(1), JsonInt(300), JsonStr(<<120>>)},
     repeats : {JsonInt(0), JsonInt(2), JsonStr(<<50>>), JsonList(<<>>)}]

handle_udp_packet_call(datagram, text_message_count) ==
    /\ call = NoCall
    /\ Called("handle_udp_packet",
              [datagram |-> datagram, text_message_count |-> text_message_count],
              [raised |-> handle_udp_packet(datagram, text_message_count).raised,
               value |-> handle_udp_packet(datagram, text_message_count)])

UdpNext ==
    \E datagram \in Datagrams, text_message_count \in {0, 65535} :
        handle_udp_packet_call(datagram, text_message_count)

SpecUdp == Init /\ [][UdpNext]_vars

\* A datagram that asks for a text message and carries an ASCII text.
ValidText(datagram) ==
    /\ datagram.json
    /\ {"type", "packet"} \subseteq datagram.has
    /\ datagram.type = "WENET_TX_TEXT"
    /\ datagram.packet.t = "str"
    /\ IsAscii(datagram.packet.v)

\* A datagram that asks for a secondary payload packet: an id, a list of
\* bytes, and no repeats field or a number of repeats.
ValidSecPayload(datagram) ==
    /\ datagram.json
    /\ {"type", "packet", "id"} \subseteq datagram.has
    /\ datagram.type = "WENET_TX_SEC_PAYLOAD"
    /\ ~json_int(datagram.id).raised
    /\ datagram.packet.t = "list"
    /\ \A k \in 1..Len(datagram.packet.v) : datagram.packet.v[k] \in 0..255
    /\ "repeats" \in datagram.has => ~json_int(datagram.repeats).raised

\* C39: handle_udp_packet never raises; when it has enqueued no frame the
\* text counter is what it was (the two queues are untouched, nothing having
\* been put); a valid WENET_TX_TEXT datagram enqueues one text frame and a
\* valid WENET_TX_SEC_PAYLOAD datagram 'repeats' frames, one when the field
\* is absent.
C39_UdpPacketHandled ==
    call.fn = "handle_udp_packet" =>
        /\ ~call.raised
        /\ call.result.queued = <<>> =>
              call.result.text_message_count = call.input.text_message_count
        /\ ValidText(call.input.datagram) =>
              /\ Len(call.result.queued) = 1
              /\ decode_packet_type(PayloadOf(call.result.queued[1])) = TEXT_MESSAGE
        /\ ValidSecPayload(call.input.datagram) =>
              /\ Len(call.result.queued) =
                    IF "repeats" \in call.input.datagram.has
                    THEN json_int(call.input.datagram.repeats).value ELSE 1
              /\ \A k \in 1..Len(call.result.queued) :
                    decode_packet_type(PayloadOf(call.result.queued[k]))
                        = SEC_PAYLOAD_TELEMETRY


(***************************************************************************)
(* rx/wenetserver.py: the ground-station server.  process_udp is called    *)
(* by the UDP listener thread for each datagram, which is what json.loads  *)
(* makes of it: an image event, an uploader status, modem statistics or a  *)
(* packet from the receiver.  A global that is None is <<>> here, and one  *)
(* that is set is <<value>>.                                               *)
(***************************************************************************)
\* What a handler has done: the socketio events emitted, the calls of
\* sondehub.add_telemetry and the payload summaries sent.
Done(emitted, uploads, summaries) ==
    Return([emitted |-> emitted, uploads |-> uploads, summaries |-> summaries])

\* What is forwarded, with what the server knew when it forwarded it.
Forwarded(gps_data, srv) ==
    [callsign |-> srv.current_callsign, modem_stats |-> srv.current_modem_stats,
     error |-> gps_data.error,
     gpsFix |-> IF "gpsFix" \in DOMAIN gps_data THEN gps_data.gpsFix ELSE -1]

\* handle_gps_telemetry(gps_data): gps_data['gpsFix'] raises KeyError on a
\* dictionary that carries only 'error'.
handle_gps_telemetry(gps_data, srv) ==
    IF srv.current_callsign = <<>> \/ srv.current_modem_stats = <<>>
    THEN Done(<<>>, <<>>, <<>>)
    ELSE IF "gpsFix" \notin DOMAIN gps_data
    THEN Raise("KeyError")
    ELSE IF gps_data.gpsFix # 3
    THEN Done(<<>>, <<>>, <<>>)
    ELSE Done(<<>>,
              IF srv.sondehub THEN <<Forwarded(gps_data, srv)>> ELSE <<>>,
              IF srv.udp_emit_port > 0 THEN <<Forwarded(gps_data, srv)>> ELSE <<>>)

Emit(event_name, data) == [event |-> event_name, error |-> data.error]

\* handle_telemetry(packet): the event is emitted when the decoder reports
\* no error; handle_gps_telemetry is called with whatever it returned.
handle_telemetry(pkt, srv) ==
    LET packet_type == decode_packet_type(pkt)
        gps_data == gps_telemetry_decoder(pkt)
        gps_update == IF gps_data.error = "None"
                      THEN <<Emit("gps_update", gps_data)>> ELSE <<>>
        gps == handle_gps_telemetry(gps_data, srv)
    IN  CASE packet_type = GPS_TELEMETRY ->
               IF gps.raised THEN gps
               ELSE Done(gps_update, gps.value.uploads, gps.value.summaries)
          [] packet_type = TEXT_MESSAGE ->
               Done(IF decode_text_message(pkt).error = "None"
                    THEN <<Emit("text_update", decode_text_message(pkt))>> ELSE <<>>,
                    <<>>, <<>>)
          [] packet_type = ORIENTATION_TELEMETRY ->
               Done(IF orientation_telemetry_decoder(pkt).error = "None"
                    THEN <<Emit("orientation_update", orientation_telemetry_decoder(pkt))>>
                    ELSE <<>>,
                    <<>>, <<>>)
          [] packet_type = IMAGE_TELEMETRY ->
               Done(IF image_telemetry_decoder(pkt).error = "None"
                    THEN <<Emit("image_telem_update", image_telemetry_decoder(pkt))>>
                    ELSE <<>>,
                    <<>>, <<>>)
          [] OTHER -> Done(<<>>, <<>>, <<>>)

\* __main__: the uploader unless --no_sondehub, the port of --udp_port, and
\* the listener thread.
server_main(sondehub, udp_port) ==
    /\ server.pc = "not_started"
    /\ server' = [server EXCEPT !.pc = "listening", !.sondehub = sondehub,
                                !.udp_emit_port = udp_port]
    /\ UNCHANGED <<txvars, rxvars, call, threads, camera, tx_text_message_count, texters,
                   script>>

\* Datagrams received by one server.
MaxDatagrams == 3

\* process_udp(packet), called by udp_rx_thread, which catches what it
\* raises.  The keys are tested in the order filename, uploader_status, snr,
\* type.
process_udp(packet_dict) ==
    LET telemetry == handle_telemetry(packet_dict.packet, server)
        handled == IF telemetry.raised THEN Done(<<>>, <<>>, <<>>).value
                   ELSE telemetry.value
    IN  /\ server.pc = "listening"
        /\ Len(server.last) < MaxDatagrams
        /\ server' =
             CASE packet_dict.kind = "filename" ->
                    [server EXCEPT !.current_callsign = <<packet_dict.callsign>>,
                                   !.emitted = Append(@, [event |-> "image_update",
                                                          error |-> "None"]),
                                   !.last = Append(@, [kind |-> "filename", raised |-> FALSE])]
               [] packet_dict.kind = "uploader_status" ->
                    [server EXCEPT !.emitted = Append(@, [event |-> "uploader_update",
                                                          error |-> "None"]),
                                   !.last = Append(@, [kind |-> "uploader_status",
                                                       raised |-> FALSE])]
               [] packet_dict.kind = "snr" ->
                    [server EXCEPT !.current_modem_stats = <<packet_dict.snr>>,
                                   !.emitted = Append(@, [event |-> "modem_stats",
                                                          error |-> "None"]),
                                   !.last = Append(@, [kind |-> "snr", raised |-> FALSE])]
               [] packet_dict.kind = "WENET" ->
                    [server EXCEPT !.emitted = @ \o handled.emitted,
                                   !.uploads = @ \o handled.uploads,
                                   !.summaries = @ \o handled.summaries,
                                   !.last = Append(@,
                                       [kind |-> "WENET", raised |-> telemetry.raised,
                                        packet_type |-> decode_packet_type(packet_dict.packet),
                                        error |-> IF decode_packet_type(packet_dict.packet)
                                                       = GPS_TELEMETRY
                                                  THEN gps_telemetry_decoder(
                                                           packet_dict.packet).error
                                                  ELSE "None",
                                        emitted |-> Len(handled.emitted),
                                        forwarded |-> Len(handled.uploads)
                                                      + Len(handled.summaries)])]
               [] OTHER ->
                    [server EXCEPT !.last = Append(@, [kind |-> packet_dict.kind,
                                                       raised |-> FALSE])]
        /\ UNCHANGED <<txvars, rxvars, call, threads, camera, tx_text_message_count,
                       texters, script>>

\* GPS packets as rx_ssdv.py broadcasts them, 256 bytes: a 3D fix, no fix,
\* a focus figure that is no number, and one cut short of its 73 bytes.
ServerGpsPackets ==
    LET base == Body(GPS_TELEMETRY, GPS_TELEMETRY_LENGTH)
    IN  {Bytes(Put(base, 33, <<3>>) \o Rep(85, 183)),
         Bytes(Put(base, 33, <<0>>) \o Rep(85, 183)),
         Bytes(Put(Put(base, 33, <<3>>), 69, NaN) \o Rep(85, 183)),
         Bytes(SubSeq(Put(base, 33, <<3>>), 1, 40))}

ServerDatagrams ==
    {[kind |-> "filename", callsign |-> <<78, 48, 67, 65, 76, 76>>],
     [kind |-> "uploader_status"],
     [kind |-> "snr", snr |-> 12],
     [kind |-> "OTHER_TYPE"]}
    \cup {[kind |-> "WENET", packet |-> pkt] :
            pkt \in ServerGpsPackets
                    \cup {<<TEXT_MESSAGE, 2, 0, 7, 72, 73>> \o Rep(85, 250),
                          Bytes(Body(ORIENTATION_TELEMETRY, ORIENTATION_TELEMETRY_LENGTH)),
                          Bytes(Rep(IDLE, 256))}}

ServerNext ==
    \/ \E sondehub \in BOOLEAN, udp_port \in {0, 55673} : server_main(sondehub, udp_port)
    \/ \E packet_dict \in ServerDatagrams : process_udp(packet_dict)

SpecServer == Init /\ [][ServerNext]_vars

\* C40: whatever has been forwarded to SondeHub or sent as a payload summary
\* was forwarded with a callsign learned and modem statistics received, from
\* a packet that decoded without error with gpsFix 3; and a GPS packet that
\* decoded to an error result has caused no upload, no summary and no
\* gps_update event, and no exception has left handle_telemetry.
C40_GpsForwarding ==
    /\ \A k \in 1..Len(server.uploads \o server.summaries) :
          LET f == (server.uploads \o server.summaries)[k]
          IN  /\ f.callsign # <<>>
              /\ f.modem_stats # <<>>
              /\ f.error = "None"
              /\ f.gpsFix = 3
    /\ \A k \in 1..Len(server.last) :
          (/\ server.last[k].kind = "WENET"
           /\ server.last[k].packet_type = GPS_TELEMETRY
           /\ server.last[k].error # "None")
          => /\ server.last[k].forwarded = 0
             /\ server.last[k].emitted = 0
             /\ ~server.last[k].raised

====
